---- MODULE Spec2Model ----
(***************************************************************************)
(* State-machine model of the cancerjobs persistence layer, the office     *)
(* deletion-flag workflow, the read endpoint and the refresh engine        *)
(* (src/lib/server/core/db.ts, refresh.ts, router.ts and the migrations).  *)
(*                                                                         *)
(* Every `await` of a handler is a scheduling point: a handler is a        *)
(* process whose pc names the statement it executes next, and one action   *)
(* executes one SQL statement (or one db.batch call, which runs under      *)
(* BEGIN ... COMMIT).  The SQL engine's own constraints (primary keys, the *)
(* partial unique index on pending flags, the foreign keys of              *)
(* center_office with ON DELETE CASCADE) are part of the statements.       *)
(*                                                                         *)
(* Spec          the flag workflow and the read endpoint on a filled       *)
(*               database: two submissions, two decisions, one read.       *)
(* SpecRefresh   the refresh engine: manual refreshes, scheduled batches   *)
(*               and refresh-all runs, next to a submission and a          *)
(*               decision.                                                 *)
(* SpecCsv       the centers and companies CSV uploads.                    *)
(* SpecAuth      the admin routes under every kind of credentials.         *)
(* SpecRead      the read endpoint under every kind of limit parameter.    *)
(* SpecNormalize normalizeOverpassElements over elements of every kind.    *)
(* SpecOverpass  fetchOverpassElements under every kind of answer.         *)
(* SpecGeo       manual refreshes next to a centers upload that moves a    *)
(*               center.                                                   *)
(* SpecCancel    scheduled batches that may stop at any await.             *)
(* SpecEnrich    manual refreshes whose Wikidata enrichment may raise.     *)
(* SpecAll       a refresh-all run alone, with weak fairness of its steps. *)
(*                                                                         *)
(* Timestamps are clock ticks and strings are tuples of characters.  What  *)
(* the upstream answers is a choice among the sequences of distinct office *)
(* keys it holds; the cap and the company matcher are computed as the code *)
(* computes them.  `load` holds the parameter values the clients may send, *)
(* `companies` the companies table, `up` and `adm` the CSV uploads and the *)
(* admin reads, `nrm` a call of the element normaliser, `ovp` a call of    *)
(* the Overpass client and `geo` the coordinates the offices were stored   *)
(* with.                                                                   *)
(***************************************************************************)
EXTENDS Integers, Sequences, FiniteSets, TLC

\* ------------------------------------------------------------------ bounds
MaxOsmId == 1          \* osm ids range over 1..MaxOsmId
MaxFlags == 2          \* rows office_deletion_flags may hold
MaxClock == 3          \* last value of the wall clock
NumCenters == 2        \* rows of cancer_centers
NumSubmits == 2        \* flag-submission requests of a behaviour
NumDecisions == 2      \* flag-decision requests of a behaviour
NumRefreshers == 2     \* refresh runs that may be in flight together
ChunkSize == 2         \* statements per db.batch call (80 in db.ts:780)
StaleLinkAge == 2      \* STALE_LINK_DAYS, in clock ticks
MaxAttempts == 2       \* centerRetryCount + 1 of a refresh-all run
NumSchedCenters == 3   \* centers the scheduled batches page through
NumRuns == 2           \* scheduled or refresh-all runs, one after the other
NumUploaders == 2      \* CSV uploads that may be in flight together

\* ------------------------------------------------------------- value sets
OsmTypes == {"node", "way"}
OfficeKeys == OsmTypes \X (1..MaxOsmId)
NoKey == <<"none", 0>>
Submitters == 1..NumSubmits
Deciders == 1..NumDecisions
Refreshers == 1..NumRefreshers
Uploaders == 1..NumUploaders

VARIABLES
  cancer_centers,         \* id -> [is_active, center_code, name, place, last_csv_sync_token]
  offices,                \* set of (osm_type, osm_id) having an offices row
  center_office,          \* (center_id, (osm_type, osm_id)) -> last_seen
  office_deletion_flags,  \* sequence of rows, id = position (AUTOINCREMENT)
  banned_offices,         \* (osm_type, osm_id) -> approved_flag_id
  clock,                  \* wall clock
  center_cursor,          \* refresh_state row 'center_cursor'
  overpass,               \* the office elements the upstream Overpass servers hold
  env,                    \* configuration (Env) of the deployment
  load,                   \* the parameter values the clients send
  companies,              \* sequence of rows, id = position (AUTOINCREMENT)
  up,                     \* CSV upload requests
  adm,                    \* admin read request (flag list, status)
  sub,                    \* flag-submission requests
  dec,                    \* flag-decision requests
  ref,                    \* refresh runs (manual, scheduled, refresh-all)
  rd,                     \* read request GET /api/centers/{id}/offices
  nrm,                    \* a call of normalizeOverpassElements
  geo,                    \* offices.lat/lon per key, center_office.distance_m per link
  ovp                     \* a call of fetchOverpassElements

vars == <<cancer_centers, offices, center_office, office_deletion_flags,
          banned_offices, clock, center_cursor, overpass, env, load,
          companies, up, adm, sub, dec, ref, rd, nrm, geo, ovp>>

\* what no request handler but the upsert of a refresh writes
fixed == <<overpass, env, load, nrm, geo, ovp>>

\* the companies table, the CSV uploads and the admin reads
imports == <<companies, up, adm>>

tables == <<cancer_centers, offices, center_office, office_deletion_flags,
            banned_offices>>

\* ---------------------------------------------------------------- helpers
Restrict(f, S) == [x \in S |-> f[x]]

LinksOfOffice(k) == {l \in DOMAIN center_office : l[2] = k}

LinksOfCenter(c) == {l \in DOMAIN center_office : l[1] = c}

FlagIds == 1..Len(office_deletion_flags)

PendingIds(k) ==
  {f \in FlagIds : office_deletion_flags[f].osm = k
                   /\ office_deletion_flags[f].status = "pending"}

SetMax(S) == CHOOSE x \in S : \A y \in S : y <= x

Min(a, b) == IF a < b THEN a ELSE b

Max(a, b) == IF a > b THEN a ELSE b

\* -------------------------------------------------------------- mutations
\* the office_deletion_flags table without its partial unique index
C4_NoUniqueIndex(k) == FALSE

\* submitOfficeDeletionFlag without its banned_offices lookup
C5_NoBannedLookup(k) == FALSE

\* the flag UPDATE with `WHERE id <= ?` for `WHERE id = ?`
C8_UpdateUpTo(f, s) ==
  [g \in FlagIds |->
     IF g <= f THEN [office_deletion_flags[g] EXCEPT !.status = s,
                                                     !.reviewed_at = clock]
     ELSE office_deletion_flags[g]]

\* the list query without its NOT EXISTS (banned_offices) clause
C2_ListWithoutBanFilter(c) ==
  {k \in offices : <<c, k>> \in DOMAIN center_office}

\* center_office without its foreign keys
C3_NoForeignKeys(c, k, offs) == TRUE

\* the unseen-link prune with `last_seen < ?` never true
C10_NoPrune(c, seenAt) == center_office

\* capOfficesByLimit returning its argument
C11_NoCap(c, q, maxOffices) == q

\* constantTimeEqual comparing the lengths only
C15_LengthOnly(a, b) == Len(a) = Len(b)

\* disableCentersMissingFromSync changing no row
C13_NoDisable(syncToken) == cancer_centers

\* an INSERT INTO companies without ON CONFLICT and without the UNIQUE index
C14_InsertAlways(row, normalizedName) ==
  Append(companies, [company_name |-> row.companyName,
                     company_name_normalized |-> normalizedName,
                     known_aliases |-> row.knownAliases])

\* filterOfficesWithKnownCompanies keeping every office
C12_KeepAll(officeSeq, companyIndex) ==
  [matchedOffices |-> officeSeq, matchedCount |-> Len(officeSeq),
   filteredOutCount |-> 0]

\* ----------------------------------------------------- db.ts: statements
\* getCenterById + `!center || !center.isActive`
CenterIsActive(c) == c \in DOMAIN cancer_centers /\ cancer_centers[c].is_active

\* officeExistsForCenter: SELECT 1 FROM center_office WHERE center_id, osm_type, osm_id
officeExistsForCenter(c, k) == <<c, k>> \in DOMAIN center_office

\* submitOfficeDeletionFlag, first SELECT: a banned_offices row for the key
BannedFound(k) == k \in DOMAIN banned_offices

\* submitOfficeDeletionFlag, second SELECT: newest pending flag id, 0 if none
PendingFlagId(k) == IF PendingIds(k) = {} THEN 0 ELSE SetMax(PendingIds(k))

\* idx_office_deletion_flags_pending_unique: an INSERT of a pending row for k
\* is refused when a pending row for k exists
PendingUniqueViolated(k) == PendingIds(k) # {}

\* INSERT INTO office_deletion_flags (..., 'pending', datetime('now'))
InsertPendingFlag(c, k) ==
  Append(office_deletion_flags,
         [center_id |-> c, osm |-> k, status |-> "pending", reviewed_at |-> 0])

\* UPDATE office_deletion_flags SET status = ?, reviewed_at = datetime('now') WHERE id = ?
UpdateFlagStatus(f, s) ==
  [office_deletion_flags EXCEPT ![f].status = s, ![f].reviewed_at = clock]

\* INSERT INTO banned_offices ... ON CONFLICT(osm_type, osm_id) DO UPDATE
UpsertBanned(k, f) ==
  [x \in DOMAIN banned_offices \cup {k} |->
     IF x = k THEN f ELSE banned_offices[x]]

\* DELETE FROM center_office WHERE osm_type = ? AND osm_id = ?
DeleteLinksOfOffice(k) ==
  Restrict(center_office, DOMAIN center_office \ LinksOfOffice(k))

\* DELETE FROM offices WHERE osm_type = ? AND osm_id = ?
DeleteOfficeRow(k) == offices \ {k}

\* FOREIGN KEY (osm_type, osm_id) REFERENCES offices ON DELETE CASCADE:
\* the link rows that remain once the offices rows in `gone` are deleted
CascadeLinks(gone) ==
  Restrict(center_office, {l \in DOMAIN center_office : l[2] \notin gone})

\* ----------------------------------------------------------- utils: parsing
Digits == <<"0", "1", "2", "3", "4", "5", "6", "7", "8", "9">>

DigitValue(ch) == (CHOOSE i \in 1..10 : Digits[i] = ch) - 1

IsDigit(ch) == \E i \in 1..10 : Digits[i] = ch

\* the value of the longest prefix of digits of str from position i on
RECURSIVE DigitsPrefix(_, _, _)
DigitsPrefix(str, i, acc) ==
  IF i > Len(str) \/ ~IsDigit(str[i]) THEN acc
  ELSE DigitsPrefix(str, i + 1, acc * 10 + DigitValue(str[i]))

\* Number.parseInt(str, 10) on a string without leading blanks: an optional
\* sign, then the longest prefix of digits; NaN when there is no digit
parseInt(str) ==
  LET signed == Len(str) > 0 /\ str[1] \in {"-", "+"}
      first == IF signed THEN 2 ELSE 1
  IN IF first > Len(str) \/ ~IsDigit(str[first])
       THEN [nan |-> TRUE, value |-> 0]
       ELSE [nan |-> FALSE,
             value |-> IF signed /\ str[1] = "-"
                         THEN 0 - DigitsPrefix(str, first, 0)
                         ELSE DigitsPrefix(str, first, 0)]

\* String(n) for a natural number n
RECURSIVE StringOf(_)
StringOf(n) ==
  IF n < 10 THEN <<Digits[n + 1]>>
  ELSE Append(StringOf(n \div 10), Digits[(n % 10) + 1])

\* utils.ts toPositiveInt; an undefined value is the empty string here
toPositiveInt(value, fallback) ==
  IF value = <<>> THEN fallback
  ELSE LET parsed == parseInt(value)
       IN IF parsed.nan \/ parsed.value <= 0 THEN fallback ELSE parsed.value

\* utils.ts clamp
clamp(value, lo, hi) == Min(Max(value, lo), hi)

SeqToSet(q) == {q[i] : i \in 1..Len(q)}

\* the sequences of office keys without repetition
KeySeqs ==
  UNION {{q \in [1..n -> OfficeKeys] : \A i, j \in 1..n : i # j => q[i] # q[j]} :
         n \in 0..Cardinality(OfficeKeys)}

\* those over the elements of S
DistinctSeqs(S) == {q \in KeySeqs : SeqToSet(q) \subseteq S}

RECURSIVE SelectKeys(_, _)
SelectKeys(q, keep) ==
  IF q = <<>> THEN <<>>
  ELSE IF Head(q) \in keep THEN <<Head(q)>> \o SelectKeys(Tail(q), keep)
  ELSE SelectKeys(Tail(q), keep)

\* ------------------------------------------------- refresh.ts: the cap
\* the places of the centers and of the offices, on a line
CenterPlace(c) == 3 * (c - 1)

OfficePlace(k) == IF k[1] = "node" THEN k[2] ELSE k[2] + 1

\* utils.ts haversineMeters, on the line
haversineMeters(c, k) ==
  IF CenterPlace(c) > OfficePlace(k) THEN CenterPlace(c) - OfficePlace(k)
  ELSE OfficePlace(k) - CenterPlace(c)

\* Array.prototype.sort by distance to the center: stable, ascending
RECURSIVE InsertByDistance(_, _, _)
InsertByDistance(sorted, k, c) ==
  IF sorted = <<>> THEN <<k>>
  ELSE IF haversineMeters(c, Head(sorted)) <= haversineMeters(c, k)
         THEN <<Head(sorted)>> \o InsertByDistance(Tail(sorted), k, c)
  ELSE <<k>> \o sorted

RECURSIVE SortByDistance(_, _)
SortByDistance(q, c) ==
  IF q = <<>> THEN <<>>
  ELSE InsertByDistance(SortByDistance(SubSeq(q, 1, Len(q) - 1), c), q[Len(q)], c)

\* refresh.ts 98-123; maxOffices 0 is null
capOfficesByLimit(c, q, maxOffices) ==
  IF maxOffices = 0 THEN q
  ELSE IF Len(q) <= maxOffices THEN q
  ELSE SubSeq(SortByDistance(q, c), 1, maxOffices)

\* refresh.ts 225-230 and 427-432: a positive number, or null
ResolveMaxOffices(option) == IF option > 0 THEN option ELSE 0

MaxOfficesLimit == 10000

\* router.ts 578-599 and 718-737: the maxOffices parameter; absent or blank is
\* null, a number below 1 or no number is refused
ParseMaxOffices(raw) ==
  IF raw = <<>> THEN [bad |-> FALSE, value |-> 0]
  ELSE LET parsed == parseInt(raw)
       IN IF parsed.nan \/ parsed.value <= 0 THEN [bad |-> TRUE, value |-> 0]
          ELSE [bad |-> FALSE, value |-> clamp(parsed.value, 1, MaxOfficesLimit)]

\* String.prototype.toLowerCase on the letters A..Z
Capitals ==
  <<"A", "B", "C", "D", "E", "F", "G", "H", "I", "J", "K", "L", "M",
    "N", "O", "P", "Q", "R", "S", "T", "U", "V", "W", "X", "Y", "Z">>

Letters ==
  <<"a", "b", "c", "d", "e", "f", "g", "h", "i", "j", "k", "l", "m",
    "n", "o", "p", "q", "r", "s", "t", "u", "v", "w", "x", "y", "z">>

toLowerCase(str) ==
  [i \in 1..Len(str) |->
     IF \E j \in 1..Len(Capitals) : Capitals[j] = str[i]
       THEN Letters[CHOOSE j \in 1..Len(Capitals) : Capitals[j] = str[i]]
     ELSE str[i]]

\* split on blanks, without the empty pieces, and join with one blank
RECURSIVE SplitBlank(_, _, _)
SplitBlank(str, i, word) ==
  IF i > Len(str)
  THEN IF word = <<>> THEN <<>> ELSE <<word>>
  ELSE IF str[i] = " "
       THEN (IF word = <<>> THEN <<>> ELSE <<word>>) \o SplitBlank(str, i + 1, <<>>)
       ELSE SplitBlank(str, i + 1, Append(word, str[i]))

RECURSIVE JoinBlank(_)
JoinBlank(words) ==
  IF words = <<>> THEN <<>>
  ELSE IF Len(words) = 1 THEN words[1]
  ELSE words[1] \o <<" ">> \o JoinBlank(Tail(words))

\* db.ts 96-98: trim, lower case, runs of blanks to one
normalizeCompanyName(name) == JoinBlank(SplitBlank(toLowerCase(name), 1, <<>>))

\* ---------------------------------------- company-match.ts: the matcher
\* A string is the sequence of its characters.  The names of the model are
\* made of letters, digits and blanks: on such names the steps of
\* normalizeCompanyText other than the lower case, the trim and the split
\* (NFKD, marks, "&", apostrophes, other characters) change nothing.
CORPORATE_SUFFIXES ==
  {<<"i", "n", "c">>,
   <<"i", "n", "c", "o", "r", "p", "o", "r", "a", "t", "e", "d">>,
   <<"l", "l", "c">>, <<"l", "t", "d">>,
   <<"l", "i", "m", "i", "t", "e", "d">>, <<"c", "o", "r", "p">>,
   <<"c", "o", "r", "p", "o", "r", "a", "t", "i", "o", "n">>, <<"c", "o">>,
   <<"c", "o", "m", "p", "a", "n", "y">>, <<"p", "l", "c">>,
   <<"g", "m", "b", "h">>, <<"s", "a">>, <<"a", "g">>, <<"n", "v">>,
   <<"b", "v">>, <<"s", "a", "r", "l">>, <<"s", "p", "a">>,
   <<"h", "o", "l", "d", "i", "n", "g", "s">>,
   <<"h", "o", "l", "d", "i", "n", "g">>}

LOW_SIGNAL_TOKENS ==
  {<<"t", "h", "e">>, <<"o", "f">>, <<"a", "n", "d">>, <<"f", "o", "r">>,
   <<"t", "o">>, <<"i", "n">>, <<"o", "n">>, <<"a", "t">>, <<"b", "y">>,
   <<"f", "r", "o", "m">>, <<"w", "i", "t", "h">>, <<"d", "e">>,
   <<"l", "a">>, <<"l", "e">>, <<"e", "l">>, <<"d", "a">>, <<"d", "o">>,
   <<"d", "i">>, <<"d", "u">>, <<"d", "e", "l">>, <<"d", "e", "s">>,
   <<"v", "a", "n">>, <<"v", "o", "n">>, <<"y">>, <<"a">>, <<"a", "n">>}

\* MIN_ACCEPT_SCORE = 0.86; scores are counted in thousandths
MIN_ACCEPT_SCORE == 860
PhraseScore == 910
ContainedScore == 900
ExactScore == 1000

normalizeCompanyText(value) ==
  JoinBlank(SelectSeq(SplitBlank(toLowerCase(value), 1, <<>>),
                      LAMBDA token : /\ token \notin CORPORATE_SUFFIXES
                                     /\ token \notin LOW_SIGNAL_TOKENS))

\* Array.from(new Set(q)): the first occurrence of each element, in order
RECURSIVE Unique(_)
Unique(q) ==
  IF q = <<>> THEN <<>>
  ELSE LET rest == Unique(SubSeq(q, 1, Len(q) - 1))
       IN IF q[Len(q)] \in SeqToSet(rest) THEN rest ELSE Append(rest, q[Len(q)])

splitTokens(normalizedValue) == Unique(SplitBlank(normalizedValue, 1, <<>>))

StartsWith(str, prefix) ==
  Len(prefix) <= Len(str) /\ SubSeq(str, 1, Len(prefix)) = prefix

EndsWith(str, suffix) ==
  /\ Len(suffix) <= Len(str)
  /\ SubSeq(str, Len(str) - Len(suffix) + 1, Len(str)) = suffix

Includes(str, part) ==
  \E i \in 1..(Len(str) - Len(part) + 1) : SubSeq(str, i, i + Len(part) - 1) = part

containsPhrase(haystack, needle) ==
  IF haystack = <<>> \/ needle = <<>> THEN FALSE
  ELSE \/ haystack = needle
       \/ StartsWith(haystack, needle \o <<" ">>)
       \/ EndsWith(haystack, <<" ">> \o needle)
       \/ Includes(haystack, <<" ">> \o needle \o <<" ">>)

sharedTokenCount(left, right) ==
  IF left = <<>> \/ right = <<>> THEN 0
  ELSE Cardinality(SeqToSet(left) \cap SeqToSet(right))

\* one row of the table: current holds the columns 0..Len(current)-1
RECURSIVE LevRow(_, _, _, _)
LevRow(previous, leftChar, right, current) ==
  LET column == Len(current) IN
  IF column > Len(right) THEN current
  ELSE LET substitutionCost == IF leftChar = right[column] THEN 0 ELSE 1
       IN LevRow(previous, leftChar, right,
                 Append(current, Min(Min(previous[column + 1] + 1,
                                         current[column] + 1),
                                     previous[column] + substitutionCost)))

RECURSIVE LevRows(_, _, _, _)
LevRows(left, right, row, previous) ==
  IF row > Len(left) THEN previous[Len(right) + 1]
  ELSE LevRows(left, right, row + 1, LevRow(previous, left[row], right, <<row>>))

levenshteinDistance(left, right) ==
  IF left = right THEN 0
  ELSE IF left = <<>> THEN Len(right)
  ELSE IF right = <<>> THEN Len(left)
  ELSE LevRows(left, right, 1, [column \in 1..(Len(right) + 1) |-> column - 1])

\* containment * 0.5 + jaccard * 0.2 + edit * 0.3 and the three overrides,
\* in thousandths rounded down: a floor keeps every comparison with 0.86,
\* 0.9 and 0.91 as it is.  `edit >= 0.8` is compared without rounding.
computeSimilarity(officeNormalized, officeTokens, variantNormalized, variantTokens) ==
  IF officeNormalized = variantNormalized THEN ExactScore
  ELSE
    LET shared == sharedTokenCount(officeTokens, variantTokens)
        tokenUnion == Len(officeTokens) + Len(variantTokens) - shared
        containmentDenominator == Min(Len(officeTokens), Len(variantTokens))
        maxLength == Max(Len(officeNormalized), Len(variantNormalized))
        distance == levenshteinDistance(officeNormalized, variantNormalized)
        kept == IF officeNormalized = <<>> \/ variantNormalized = <<>>
                THEN 0 ELSE maxLength - distance
        score == IF containmentDenominator > 0
                 THEN (500 * shared * tokenUnion * maxLength
                       + 200 * shared * containmentDenominator * maxLength
                       + 300 * kept * containmentDenominator * tokenUnion)
                      \div (containmentDenominator * tokenUnion * maxLength)
                 ELSE (300 * kept) \div maxLength
        phraseMatch == \/ containsPhrase(officeNormalized, variantNormalized)
                       \/ containsPhrase(variantNormalized, officeNormalized)
        shortLength == Min(Len(officeNormalized), Len(variantNormalized))
        phrased == IF phraseMatch /\ shortLength >= 4
                   THEN Max(score, PhraseScore) ELSE score
        contained == IF /\ containmentDenominator > 0
                        /\ shared = containmentDenominator
                        /\ containmentDenominator >= 2
                        /\ 10 * kept >= 8 * maxLength
                     THEN Max(phrased, ContainedScore) ELSE phrased
    IN IF /\ Len(officeTokens) = 1 /\ Len(variantTokens) = 1
          /\ officeTokens[1] = variantTokens[1]
       THEN ExactScore ELSE contained

\* addVariant: a variant per distinct normalised name of a company
addVariant(variants, companyId, source, rawValue) ==
  LET normalizedName == normalizeCompanyText(rawValue) IN
  IF normalizedName = <<>> THEN variants
  ELSE IF \E i \in 1..Len(variants) : /\ variants[i].companyId = companyId
                                      /\ variants[i].normalizedName = normalizedName
  THEN variants
  ELSE Append(variants, [companyId |-> companyId, normalizedName |-> normalizedName,
                         source |-> source, tokens |-> splitTokens(normalizedName)])

RECURSIVE AddAliases(_, _, _)
AddAliases(variants, companyId, aliases) ==
  IF aliases = <<>> THEN variants
  ELSE AddAliases(addVariant(variants, companyId, "alias", Head(aliases)),
                  companyId, Tail(aliases))

\* records: the rows of companies in id order; known_aliases is the sequence
\* parseAliases makes of the column
RECURSIVE AddRecords(_, _, _)
AddRecords(variants, records, i) ==
  IF i > Len(records) THEN variants
  ELSE AddRecords(AddAliases(addVariant(variants, i, "company_name",
                                        records[i].company_name),
                             i, records[i].known_aliases),
                  records, i + 1)

\* the index is its list of variants; exactIndex and tokenIndex are the
\* look-ups ExactVariants and Shortlist on that list
buildCompanyMatchIndex(records) == AddRecords(<<>>, records, 1)

ExactVariants(companyIndex, officeNormalized) ==
  {i \in 1..Len(companyIndex) : companyIndex[i].normalizedName = officeNormalized}

Shortlist(companyIndex, officeTokens) ==
  {i \in 1..Len(companyIndex) :
     SeqToSet(companyIndex[i].tokens) \cap SeqToSet(officeTokens) # {}}

\* uniqueOfficeNames: name, brand, operator; <<>> stands for null
RECURSIVE PushCandidates(_, _)
PushCandidates(candidates, values) ==
  IF values = <<>> THEN candidates
  ELSE LET normalized == normalizeCompanyText(Head(values))
           seen == {normalizeCompanyText(candidates[i]) : i \in 1..Len(candidates)}
       IN PushCandidates(IF normalized = <<>> \/ normalized \in seen
                         THEN candidates ELSE Append(candidates, Head(values)),
                         Tail(values))

uniqueOfficeNames(office) ==
  PushCandidates(<<>>, <<office.name, office.brand, office.operator>>)

\* the scores of the matches one candidate name collects
CandidateScores(candidate, companyIndex) ==
  LET officeNormalized == normalizeCompanyText(candidate)
      officeTokens == splitTokens(officeNormalized)
  IN IF officeNormalized = <<>> \/ officeTokens = <<>> THEN {}
     ELSE {ExactScore : i \in ExactVariants(companyIndex, officeNormalized)}
          \cup {score \in {computeSimilarity(officeNormalized, officeTokens,
                                             companyIndex[i].normalizedName,
                                             companyIndex[i].tokens)
                             : i \in Shortlist(companyIndex, officeTokens)}
                  : ~(score < MIN_ACCEPT_SCORE)}

\* the score of bestMatch; which of several equally good variants wins is
\* left out
matchOfficeToCompany(office, companyIndex) ==
  IF companyIndex = <<>> THEN [found |-> FALSE, score |-> 0]
  ELSE LET officeCandidates == uniqueOfficeNames(office)
           scores == UNION {CandidateScores(officeCandidates[i], companyIndex)
                              : i \in 1..Len(officeCandidates)}
       IN IF scores = {} THEN [found |-> FALSE, score |-> 0]
          ELSE [found |-> TRUE, score |-> SetMax(scores)]

\* the name, brand and operator the normaliser gives the office of a key
OfficeOf(k) ==
  IF k[1] = "node"
  THEN [name |-> <<"a", "c", "m", "e", " ", "l", "a", "b", "s">>,
        brand |-> <<>>, operator |-> <<>>]
  ELSE [name |-> <<"a", "b", " ", "c", "d">>,
        brand |-> <<"b", "o", "l", "t">>, operator |-> <<>>]

\* offices are sequences of keys
filterOfficesWithKnownCompanies(officeSeq, companyIndex) ==
  LET matchedOffices ==
        SelectKeys(officeSeq,
                   {k \in OfficeKeys : matchOfficeToCompany(OfficeOf(k), companyIndex).found})
  IN [matchedOffices |-> matchedOffices,
      matchedCount |-> Len(matchedOffices),
      filteredOutCount |-> Max(0, Len(officeSeq) - Len(matchedOffices))]

\* listCompaniesForMatching + buildCompanyMatchIndex
loadCompanyMatchIndex == buildCompanyMatchIndex(companies)

\* ------------------------------------------------ db.ts: refresh statements
\* listBannedOfficeKeys + loadBannedOfficeKeys: the set of banned keys
loadBannedOfficeKeys == DOMAIN banned_offices

\* getRefreshCursor: the stored string parsed; no row reads as "0"
getRefreshCursor ==
  LET parsed == parseInt(IF center_cursor = <<>> THEN <<"0">> ELSE center_cursor)
  IN IF parsed.nan \/ parsed.value < 0 THEN 0 ELSE parsed.value

\* setRefreshCursor: the value column holds String(cursor)
setRefreshCursor(cursor) == StringOf(cursor)

\* listCentersAfterCursor: WHERE is_active = 1 AND id > ? ORDER BY id ASC LIMIT ?
RECURSIVE CentersFrom(_, _)
CentersFrom(id, limit) ==
  IF limit = 0 \/ \A c \in DOMAIN cancer_centers : c < id THEN <<>>
  ELSE IF id \in DOMAIN cancer_centers /\ cancer_centers[id].is_active
         THEN <<id>> \o CentersFrom(id + 1, limit - 1)
  ELSE CentersFrom(id + 1, limit)

\* mutation: the page query with `id >= ?` for `id > ?`
C9_ListFromCursor(cursor, limit) == CentersFrom(cursor, limit)

listCentersAfterCursor(cursor, limit) == CentersFrom(cursor + 1, limit)

\* the foreign keys of a center_office row, checked against the offices rows
\* `offs` (0001_init.sql, PRAGMA foreign_keys = ON)
ForeignKeysHold(c, k, offs) == c \in DOMAIN cancer_centers /\ k \in offs

\* upsertOfficesAndLinks: one upsert per office, then one upsert per link
Statements(c, accepted, seenAt) ==
  [i \in 1..(2 * Len(accepted)) |->
     IF i <= Len(accepted)
       THEN [kind |-> "office", center |-> c, osm |-> accepted[i],
             last_seen |-> seenAt]
       ELSE [kind |-> "link", center |-> c,
             osm |-> accepted[i - Len(accepted)], last_seen |-> seenAt]]

\* db.batch of statements i..last: BEGIN, the statements in order, COMMIT; a
\* failing statement rolls the whole batch back and the call throws
RECURSIVE batch(_, _, _, _, _)
batch(stmts, i, last, offs, links) ==
  IF i > last THEN [ok |-> TRUE, offices |-> offs, center_office |-> links]
  ELSE IF stmts[i].kind = "office"
         THEN batch(stmts, i + 1, last, offs \cup {stmts[i].osm}, links)
  ELSE IF ForeignKeysHold(stmts[i].center, stmts[i].osm, offs)
         THEN batch(stmts, i + 1, last, offs,
                    [l \in DOMAIN links \cup {<<stmts[i].center, stmts[i].osm>>} |->
                       IF l = <<stmts[i].center, stmts[i].osm>>
                         THEN stmts[i].last_seen ELSE links[l]])
  ELSE [ok |-> FALSE, offices |-> offices, center_office |-> center_office]

\* pruneCenterLinksNotSeenSince: DELETE ... WHERE center_id = ? AND last_seen < ?
pruneCenterLinksNotSeenSince(c, seenAt) ==
  Restrict(center_office,
           {l \in DOMAIN center_office : ~(l[1] = c /\ center_office[l] < seenAt)})

\* pruneStaleCenterLinks: DELETE ... WHERE center_id = ? AND last_seen < now - staleDays
pruneStaleCenterLinks(c, staleAge) ==
  Restrict(center_office,
           {l \in DOMAIN center_office :
              ~(l[1] = c /\ center_office[l] < clock - staleAge)})

\* sanitizeText: trimmed, null (<<>>) when nothing is left
RECURSIVE TrimLeft(_)
TrimLeft(str) ==
  IF str # <<>> /\ Head(str) = " " THEN TrimLeft(Tail(str)) ELSE str

RECURSIVE TrimRight(_)
TrimRight(str) ==
  IF str # <<>> /\ str[Len(str)] = " "
  THEN TrimRight(SubSeq(str, 1, Len(str) - 1)) ELSE str

sanitizeText(value) == TrimRight(TrimLeft(value))

\* ------------------------------------------------------------- auth.ts
\* a header that is absent and a variable that is not set are <<>>
BearerPrefix == <<"B", "e", "a", "r", "e", "r", " ">>

\* the trigger of a run no request started
CronTrigger == <<"cron">>

constantTimeEqual(a, b) ==
  IF Len(a) # Len(b) THEN FALSE
  ELSE \A index \in 1..Len(a) : a[index] = b[index]

isAdminAuthorized(headerValue, configuredToken) ==
  IF configuredToken = <<>> THEN FALSE
  ELSE IF headerValue = <<>> \/ ~StartsWith(headerValue, BearerPrefix) THEN FALSE
  ELSE LET providedToken ==
             sanitizeText(SubSeq(headerValue, Len(BearerPrefix) + 1, Len(headerValue)))
       IN IF providedToken = <<>> THEN FALSE
          ELSE constantTimeEqual(providedToken, configuredToken)

\* the token of the deployment and the header of its administrator
SecretToken == <<"s", "1">>

ValidHeader == BearerPrefix \o SecretToken

\* whether the trigger of a run lets it start
MayStart(authorization) ==
  authorization = CronTrigger \/ isAdminAuthorized(authorization, env.ADMIN_TOKEN)

\* ------------------------------------------ the Overpass element normaliser
\* An element is [type, id, coords, tags]: coords is 0 when the element has
\* neither lat/lon nor center, tags maps name, website, wikidata, brand and
\* operator to strings, <<>> for a tag the element does not have.
NrmIdle == [pc |-> "idle", elements |-> <<>>, offices |-> <<>>]

\* utils.ts sanitizeText(value, maxLength)
sanitizeTextTo(value, maxLength) ==
  LET trimmed == sanitizeText(value)
  IN SubSeq(trimmed, 1, Min(Len(trimmed), maxLength))

IsWordChar(ch) ==
  IsDigit(ch) \/ ch \in SeqToSet(Letters) \cup SeqToSet(Capitals) \cup {"_"}

\* the end of the run of digits that begins at position i
RECURSIVE DigitsEnd(_, _)
DigitsEnd(str, i) ==
  IF i < Len(str) /\ IsDigit(str[i + 1]) THEN DigitsEnd(str, i + 1) ELSE i

\* /\bQ[1-9]\d*\b/i matches at position i
QidAt(str, i) ==
  /\ str[i] \in {"Q", "q"}
  /\ i = 1 \/ ~IsWordChar(str[i - 1])
  /\ i < Len(str) /\ IsDigit(str[i + 1]) /\ str[i + 1] # "0"
  /\ LET last == DigitsEnd(str, i + 1)
     IN last = Len(str) \/ ~IsWordChar(str[last + 1])

\* utils.ts normalizeWikidataEntityId: the first Q-id of the text, upper case
normalizeWikidataEntityId(value) ==
  LET normalized == sanitizeText(value)
      hits == {i \in 1..Len(normalized) : QidAt(normalized, i)}
  IN IF hits = {} THEN <<>>
     ELSE LET first == CHOOSE i \in hits : \A j \in hits : i <= j
          IN <<"Q">> \o SubSeq(normalized, first + 1,
                               DigitsEnd(normalized, first + 1))

\* isLowConfidence(tags)
isLowConfidence(tags) ==
  LET name == sanitizeTextTo(tags.name, 300)
      hasEvidence == \/ sanitizeTextTo(tags.website, 500) # <<>>
                     \/ sanitizeTextTo(tags.wikidata, 200) # <<>>
                     \/ sanitizeTextTo(tags.brand, 250) # <<>>
                     \/ sanitizeTextTo(tags.operator, 250) # <<>>
  IN ~(name # <<>> /\ hasEvidence)

\* normalizeNameForKey: trimmed, lower case, runs of blanks collapsed
normalizeNameForKey(name) == JoinBlank(SplitBlank(toLowerCase(name), 1, <<>>))

officeScore(office) ==
  (IF office.website # <<>> THEN 4 ELSE 0)
  + (IF office.wikidata # <<>> THEN 3 ELSE 0)
  + (IF office.brand # <<>> THEN 2 ELSE 0)
  + (IF office.operator # <<>> THEN 1 ELSE 0)

\* the Office of an element that has coordinates and a name
NormalizedOffice(element) ==
  [osmType |-> element.type, osmId |-> element.id,
   name |-> sanitizeTextTo(element.tags.name, 300),
   brand |-> sanitizeTextTo(element.tags.brand, 250),
   operator |-> sanitizeTextTo(element.tags.operator, 250),
   website |-> sanitizeTextTo(element.tags.website, 500),
   wikidata |->
     normalizeWikidataEntityId(sanitizeTextTo(element.tags.wikidata, 200)),
   coords |-> element.coords,
   lowConfidence |-> isLowConfidence(element.tags)]

dedupeKey(office) == <<normalizeNameForKey(office.name), office.coords>>

\* the Map dedupedByNameAndCoords after the elements from position i on
RECURSIVE DedupedFrom(_, _, _)
DedupedFrom(elements, i, deduped) ==
  IF i > Len(elements) THEN deduped
  ELSE LET element == elements[i]
       IN IF \/ element.type \notin {"node", "way", "relation"}
             \/ element.coords = 0
             \/ sanitizeTextTo(element.tags.name, 300) = <<>>
            THEN DedupedFrom(elements, i + 1, deduped)
          ELSE LET normalized == NormalizedOffice(element)
                   same == {j \in 1..Len(deduped) :
                              dedupeKey(deduped[j]) = dedupeKey(normalized)}
               IN IF same = {}
                    THEN DedupedFrom(elements, i + 1, Append(deduped, normalized))
                  ELSE LET j == CHOOSE x \in same : TRUE
                       IN IF officeScore(normalized) > officeScore(deduped[j])
                            THEN DedupedFrom(elements, i + 1,
                                             [deduped EXCEPT ![j] = normalized])
                          ELSE DedupedFrom(elements, i + 1, deduped)

normalizeOverpassElements(elements) == DedupedFrom(elements, 1, <<>>)

\* a call normalizeOverpassElements(elements)
Normalize ==
  /\ nrm.pc = "idle"
  /\ nrm' = [nrm EXCEPT !.pc = "done",
                        !.offices = normalizeOverpassElements(nrm.elements)]
  /\ UNCHANGED <<tables, clock, center_cursor, overpass, env, load, imports,
                 sub, dec, ref, rd, geo, ovp>>

\* ------------------------------------------ auth.ts: the Overpass client
\* the URL used when OVERPASS_URL names none
DefaultOverpassUrl == <<"d">>

\* String.prototype.split(","): the pieces between the commas, empty ones too
RECURSIVE SplitComma(_, _, _)
SplitComma(str, i, piece) ==
  IF i > Len(str) THEN <<piece>>
  ELSE IF str[i] = "," THEN <<piece>> \o SplitComma(str, i + 1, <<>>)
  ELSE SplitComma(str, i + 1, Append(piece, str[i]))

RECURSIVE NonEmpty(_)
NonEmpty(pieces) ==
  IF pieces = <<>> THEN <<>>
  ELSE IF Head(pieces) = <<>> THEN NonEmpty(Tail(pieces))
  ELSE <<Head(pieces)>> \o NonEmpty(Tail(pieces))

\* auth.ts 48-56; raw <<>> is undefined
getOverpassUrls(raw) ==
  IF raw = <<>> THEN <<DefaultOverpassUrl>>
  ELSE LET pieces == SplitComma(raw, 1, <<>>)
           urls == NonEmpty([i \in 1..Len(pieces) |-> sanitizeText(pieces[i])])
       IN IF Len(urls) > 0 THEN urls ELSE <<DefaultOverpassUrl>>

maxRetries == 3
RetryWaitMs == 400

\* an answer of fetch: its status, 0 when fetch rejects, and whether
\* response.json() parses the body
Response(status, json) == [status |-> status, json |-> json]

\* errors: none, `Overpass request failed with status N`, the error fetch or
\* response.json() threw, `Overpass request failed after retries`
NoError == [kind |-> "none", status |-> 0]
StatusError(status) == [kind |-> "status", status |-> status]
ThrownError(response) == [kind |-> "thrown", status |-> response.status]
AfterRetriesError == [kind |-> "after_retries", status |-> 0]

\* `log` records, for C25, the requests made: the URL, the attempt, the
\* answer and the sleep that followed
OvpIdle ==
  [pc |-> "idle", raw |-> <<>>, urls |-> <<>>, url |-> 0, attempt |-> 0,
   lastError |-> NoError, log |-> <<>>, error |-> NoError]

\* auth.ts 73-79
FetchOverpassStart ==
  /\ ovp.pc = "idle"
  /\ ovp' = [ovp EXCEPT !.pc = "fetch", !.urls = getOverpassUrls(ovp.raw),
                        !.url = 1, !.attempt = 0]
  /\ UNCHANGED <<tables, clock, center_cursor, overpass, env, load, imports,
                 sub, dec, ref, rd, nrm, geo>>

\* response.ok
IsOk(response) == response.status \in 200..299

\* auth.ts 82-112: one pass of the inner loop, its sleep included, and the
\* move to the next attempt, the next URL or the end of the call
FetchOverpassAttempt(response) ==
  /\ ovp.pc = "fetch"
  /\ LET threw == response.status = 0 \/ (IsOk(response) /\ ~response.json)
         retried == ~threw /\ ~IsOk(response)
                    /\ (response.status = 429 \/ response.status >= 500)
         abandoned == ~threw /\ ~IsOk(response) /\ ~retried
         waitMs == IF threw \/ retried THEN RetryWaitMs * (ovp.attempt + 1) ELSE 0
         lastError == IF threw THEN ThrownError(response)
                      ELSE IF abandoned THEN StatusError(response.status)
                      ELSE ovp.lastError
         log == Append(ovp.log, [url |-> ovp.url, attempt |-> ovp.attempt,
                                 response |-> response, waitMs |-> waitMs])
         nextUrl == abandoned \/ ovp.attempt + 1 >= maxRetries
         rec == [ovp EXCEPT !.log = log, !.lastError = lastError]
     IN ovp' = IF IsOk(response) /\ response.json
                 THEN [rec EXCEPT !.pc = "returned"]
               ELSE IF ~nextUrl
                 THEN [rec EXCEPT !.attempt = @ + 1]
               ELSE IF ovp.url < Len(ovp.urls)
                 THEN [rec EXCEPT !.url = @ + 1, !.attempt = 0]
               ELSE [rec EXCEPT !.pc = "threw",
                                !.error = IF lastError # NoError THEN lastError
                                          ELSE AfterRetriesError]
  /\ UNCHANGED <<tables, clock, center_cursor, overpass, env, load, imports,
                 sub, dec, ref, rd, nrm, geo>>

\* ------------------------------------------- POST /api/offices/flag-deletion
SubIdle == [pc |-> "idle", centerId |-> 0, osm |-> NoKey, outcome |-> "none",
            flagId |-> 0, snapFlags |-> <<>>, snapBanned |-> <<>>,
            alone |-> FALSE]

SubmitDone(p, out, id, alone) ==
  sub' = [sub EXCEPT ![p].pc = "done", ![p].outcome = out, ![p].flagId = id,
                     ![p].snapFlags = <<>>, ![p].snapBanned = <<>>,
                     ![p].alone = alone]

\* whether no other request wrote office_deletion_flags or banned_offices
\* since this submission ran its first statement
SubmitAlone(p) ==
  /\ sub[p].snapFlags = office_deletion_flags
  /\ sub[p].snapBanned = banned_offices

\* router.ts 283-299: parse the payload, getCenterById
SubmitStart(p, c, k) ==
  /\ sub[p].pc = "idle"
  /\ IF CenterIsActive(c)
       THEN sub' = [sub EXCEPT ![p].pc = "office_exists", ![p].centerId = c,
                               ![p].osm = k]
       ELSE sub' = [sub EXCEPT ![p].pc = "done", ![p].centerId = c,
                               ![p].osm = k, ![p].outcome = "http_404"]
  /\ UNCHANGED <<tables, clock, center_cursor, fixed, imports, dec, ref, rd>>

\* router.ts 320-336: officeExistsForCenter
SubmitOfficeExists(p) ==
  /\ sub[p].pc = "office_exists"
  /\ IF officeExistsForCenter(sub[p].centerId, sub[p].osm)
       THEN sub' = [sub EXCEPT ![p].pc = "check_banned"]
       ELSE sub' = [sub EXCEPT ![p].pc = "done", ![p].outcome = "http_404"]
  /\ UNCHANGED <<tables, clock, center_cursor, fixed, imports, dec, ref, rd>>

\* db.ts 327-345
SubmitCheckBanned(p) ==
  /\ sub[p].pc = "check_banned"
  /\ IF BannedFound(sub[p].osm)
       THEN SubmitDone(p, "already_banned", 0, TRUE)
       ELSE sub' = [sub EXCEPT ![p].pc = "check_pending",
                               ![p].snapFlags = office_deletion_flags,
                               ![p].snapBanned = banned_offices]
  /\ UNCHANGED <<tables, clock, center_cursor, fixed, imports, dec, ref, rd>>

\* db.ts 347-367
SubmitCheckPending(p) ==
  /\ sub[p].pc = "check_pending"
  /\ IF PendingFlagId(sub[p].osm) > 0
       THEN SubmitDone(p, "already_pending", PendingFlagId(sub[p].osm),
                       SubmitAlone(p))
       ELSE sub' = [sub EXCEPT ![p].pc = "insert"]
  /\ UNCHANGED <<tables, clock, center_cursor, fixed, imports, dec, ref, rd>>

\* db.ts 369-386: the INSERT; a violated unique index makes run() throw, which
\* the router surfaces as HTTP 500
SubmitInsert(p) ==
  /\ sub[p].pc = "insert"
  /\ IF PendingUniqueViolated(sub[p].osm)
       THEN /\ SubmitDone(p, "http_500", 0, SubmitAlone(p))
            /\ UNCHANGED office_deletion_flags
       ELSE /\ Len(office_deletion_flags) < MaxFlags
            /\ office_deletion_flags' =
                 InsertPendingFlag(sub[p].centerId, sub[p].osm)
            /\ SubmitDone(p, "created", Len(office_deletion_flags) + 1,
                          SubmitAlone(p))
  /\ UNCHANGED <<cancer_centers, offices, center_office, banned_offices,
                 clock, center_cursor, fixed, imports, dec, ref, rd>>

\* ------------------- POST /api/admin/offices/deletion-flags/{id}/decision
DecIdle == [pc |-> "idle", authorization |-> <<>>,
            decision |-> "none", flagId |-> 0, osm |-> NoKey,
            outcome |-> "none", http |-> 0, deletedLinks |-> 0,
            deletedOffices |-> 0, removedLinks |-> 0]

\* router.ts 852-874: the HTTP status of a decision's outcome
DecisionHttp(decision, outcome) ==
  IF outcome = "not_found" THEN 404
  ELSE IF decision = "reject" /\ outcome = "already_approved" THEN 409
  ELSE 200

DecideDone(p, out) ==
  dec' = [dec EXCEPT ![p].pc = "done", ![p].outcome = out,
                     ![p].http = DecisionHttp(dec[p].decision, out)]

\* db.ts 491-512 (approve) and 575-607 (reject): getOfficeDeletionFlagStatus
\* and the early returns
DecideStart(p, d, f, authorization) ==
  /\ dec[p].pc = "idle"
  /\ IF ~isAdminAuthorized(authorization, env.ADMIN_TOKEN)
       THEN dec' = [dec EXCEPT ![p].pc = "done", ![p].decision = d,
                               ![p].authorization = authorization,
                               ![p].flagId = f, ![p].outcome = "unauthorized",
                               ![p].http = 401]
     ELSE IF f \notin FlagIds
       THEN dec' = [dec EXCEPT ![p].pc = "done", ![p].decision = d,
                               ![p].authorization = authorization,
                               ![p].flagId = f, ![p].outcome = "not_found",
                               ![p].http = DecisionHttp(d, "not_found")]
       ELSE LET row == office_deletion_flags[f]
                early == IF row.status = "approved" THEN "already_approved"
                         ELSE IF d = "reject" /\ row.status = "rejected"
                                THEN "already_rejected"
                         ELSE "none"
            IN dec' = [dec EXCEPT
                 ![p].pc = IF early # "none" THEN "done"
                           ELSE IF d = "approve" THEN "upd_flag"
                           ELSE "rej_upd",
                 ![p].authorization = authorization,
                 ![p].decision = d, ![p].flagId = f, ![p].osm = row.osm,
                 ![p].outcome = early,
                 ![p].http = IF early # "none" THEN DecisionHttp(d, early)
                             ELSE 0]
  /\ UNCHANGED <<tables, clock, center_cursor, fixed, imports, sub, ref, rd>>

\* db.ts 514-524
ApproveUpdateFlag(p) ==
  /\ dec[p].pc = "upd_flag"
  /\ office_deletion_flags' = UpdateFlagStatus(dec[p].flagId, "approved")
  /\ dec' = [dec EXCEPT ![p].pc = "ins_banned"]
  /\ UNCHANGED <<cancer_centers, offices, center_office, banned_offices,
                 clock, center_cursor, fixed, imports, sub, ref, rd>>

\* db.ts 526-537
ApproveUpsertBanned(p) ==
  /\ dec[p].pc = "ins_banned"
  /\ banned_offices' = UpsertBanned(dec[p].osm, dec[p].flagId)
  /\ dec' = [dec EXCEPT ![p].pc = "del_links"]
  /\ UNCHANGED <<cancer_centers, offices, center_office,
                 office_deletion_flags, clock, center_cursor, fixed, imports, sub, ref, rd>>

\* db.ts 539-548; meta.changes counts the rows the statement deleted
ApproveDeleteLinks(p) ==
  /\ dec[p].pc = "del_links"
  /\ center_office' = DeleteLinksOfOffice(dec[p].osm)
  /\ dec' = [dec EXCEPT ![p].pc = "del_office",
               ![p].deletedLinks = Cardinality(LinksOfOffice(dec[p].osm)),
               ![p].removedLinks = Cardinality(LinksOfOffice(dec[p].osm))]
  /\ UNCHANGED <<cancer_centers, offices, office_deletion_flags,
                 banned_offices, clock, center_cursor, fixed, imports, sub, ref, rd>>

\* db.ts 550-568; the foreign key cascades to center_office, and rows deleted
\* by a cascade are not counted in meta.changes (removedLinks counts them)
ApproveDeleteOffice(p) ==
  /\ dec[p].pc = "del_office"
  /\ offices' = DeleteOfficeRow(dec[p].osm)
  /\ center_office' = CascadeLinks(offices \ offices')
  /\ dec' = [dec EXCEPT ![p].pc = "done", ![p].outcome = "approved",
               ![p].http = DecisionHttp("approve", "approved"),
               ![p].deletedOffices = Cardinality(offices \ offices'),
               ![p].removedLinks =
                  @ + Cardinality(DOMAIN center_office \ DOMAIN center_office')]
  /\ UNCHANGED <<cancer_centers, office_deletion_flags, banned_offices,
                 clock, center_cursor, fixed, imports, sub, ref, rd>>

\* db.ts 609-628
RejectUpdateFlag(p) ==
  /\ dec[p].pc = "rej_upd"
  /\ office_deletion_flags' = UpdateFlagStatus(dec[p].flagId, "rejected")
  /\ DecideDone(p, "rejected")
  /\ UNCHANGED <<cancer_centers, offices, center_office, banned_offices,
                 clock, center_cursor, fixed, imports, sub, ref, rd>>

\* ---------------------------------------------- refresh.ts: refresh engine
DefaultBatchCentersPerRun == 10

\* `before` records, for C27, the offices and links a scheduled run found when
\* it began, and whether it began after another scheduled run had ended
NoTables == [offices |-> {}, links |-> {}, follows |-> FALSE]

RefIdle(budget, kinds) ==
  [pc |-> "idle", mode |-> "none", budget |-> budget, kinds |-> kinds,
   authorization |-> <<>>, centers |-> <<>>,
   idx |-> 0, cursorStart |-> 0, cursor |-> 0, batchSize |-> 0,
   attempt |-> 0, attemptsAllowed |-> 0, banned |-> {}, center |-> 0,
   companyMatchIndex |-> <<>>,
   maxOffices |-> 0, cut |-> FALSE, officesFetched |-> 0,
   matchedCount |-> 0, filteredOutCount |-> 0,
   target |-> 0, startClock |-> 0, seenAt |-> 0, accepted |-> <<>>,
   pos |-> 0, pruned |-> 0, overlap |-> FALSE, visited |-> <<>>,
   attempted |-> 0, succeeded |-> 0, failed |-> 0, lastError |-> "none",
   tries |-> <<>>, written |-> {}, linked |-> {}, centerPlace |-> <<>>,
   shift |-> 0, answer |-> {}, enrichment |-> "none", before |-> NoTables,
   wikidataEntitiesFetched |-> 0, wikidataOfficesUpdated |-> 0,
   outcome |-> "none"]

\* whether a refresh run of the kind may start in slot r
RefFree(r, kind) ==
  ref[r].pc \in {"idle", "done"} /\ ref[r].budget > 0 /\ kind \in ref[r].kinds

\* the record of r becomes rec; `overlap` records, for C10, that two calls of
\* refreshCenterOffices for one center were in progress together
SetRef(r, rec) ==
  ref' = [x \in Refreshers |->
            IF x = r THEN rec
            ELSE IF rec.center # 0 /\ ref[x].center = rec.center
                   THEN [ref[x] EXCEPT !.overlap = TRUE]
            ELSE ref[x]]

\* a call refreshCenterOffices(env, c, options) begins
EnterRc(rec, r, c, firstPc) ==
  [rec EXCEPT !.pc = firstPc, !.center = c, !.target = c,
              !.startClock = clock, !.seenAt = 0, !.accepted = <<>>,
              !.pos = 0, !.pruned = 0, !.cut = FALSE,
              !.written = {}, !.linked = {},
              !.overlap = \E x \in Refreshers \ {r} : ref[x].center = c]

\* the call is over; its locals are dropped
LeaveRc(rec) ==
  [rec EXCEPT !.center = 0, !.startClock = 0, !.seenAt = 0,
              !.accepted = <<>>, !.pos = 0, !.officesFetched = 0,
              !.matchedCount = 0, !.filteredOutCount = 0,
              !.written = {}, !.linked = {}, !.shift = 0,
              !.enrichment = "none", !.wikidataEntitiesFetched = 0,
              !.wikidataOfficesUpdated = 0]

\* refresh.ts 316-358 and 462-544: the loop moves to the next center of the
\* page, or leaves the loop
NextCenter(rec, r) ==
  IF rec.idx < Len(rec.centers)
    THEN EnterRc([rec EXCEPT !.idx = @ + 1, !.attempt = 1,
                             !.attempted = @ + 1,
                             !.visited = Append(@, rec.centers[rec.idx + 1]),
                             !.tries = Append(@, <<>>)],
                 r, rec.centers[rec.idx + 1], "rc_fetch")
    ELSE [LeaveRc(rec) EXCEPT
            !.pc = IF rec.mode = "batch" THEN "s_set_cursor"
                   ELSE "a_set_cursor"]

\* `tries` records, for C16 and C17, how each call of refreshCenterOffices the
\* loop made for its current center ended
Tried(rec, result) ==
  [rec EXCEPT !.tries[Len(rec.tries)] = Append(@, result)]

\* refreshCenterOffices returned to its caller; `answer` records, for C23,
\* the offices a manual refresh upserted
RcReturn(rec, r) ==
  IF rec.mode = "center"
    THEN [LeaveRc(rec) EXCEPT
            !.pc = "done", !.outcome = "ok",
            !.answer = SeqToSet(rec.accepted),
            !.enrichment = rec.enrichment,
            !.wikidataEntitiesFetched = rec.wikidataEntitiesFetched,
            !.wikidataOfficesUpdated = rec.wikidataOfficesUpdated]
    ELSE NextCenter([Tried(rec, "returned") EXCEPT !.succeeded = @ + 1], r)

\* mutation of RcThrow: the retry loop of refresh-all allows one attempt more
C16_RetryOnceMore(rec, r, error) ==
  IF rec.mode = "center"
    THEN [LeaveRc(rec) EXCEPT !.pc = "done", !.outcome = "http_500",
                              !.lastError = error]
  ELSE IF rec.mode = "batch"
         THEN NextCenter([Tried(rec, "raised") EXCEPT !.lastError = error], r)
  ELSE IF rec.attempt <= rec.attemptsAllowed
         THEN EnterRc([Tried(rec, "raised") EXCEPT !.attempt = @ + 1,
                                                   !.lastError = error],
                      r, rec.center, "rc_fetch")
  ELSE NextCenter([Tried(rec, "raised") EXCEPT !.failed = @ + 1,
                                               !.lastError = error], r)

\* mutation of RcThrow: no try/catch around the call in the scheduled batch
C17_ThrowEndsBatch(rec, r, error) ==
  IF rec.mode \in {"center", "batch"}
    THEN [LeaveRc(Tried(rec, "raised")) EXCEPT
            !.pc = "done", !.outcome = "http_500", !.lastError = error]
  ELSE IF rec.attempt < rec.attemptsAllowed
         THEN EnterRc([Tried(rec, "raised") EXCEPT !.attempt = @ + 1,
                                                   !.lastError = error],
                      r, rec.center, "rc_fetch")
  ELSE NextCenter([Tried(rec, "raised") EXCEPT !.failed = @ + 1,
                                               !.lastError = error], r)

\* refreshCenterOffices threw: HTTP 500 (router), caught and logged
\* (refresh.ts 344-353), or retried (refresh.ts 478-539)
RcThrow(rec, r, error) ==
  IF rec.mode = "center"
    THEN [LeaveRc(rec) EXCEPT !.pc = "done", !.outcome = "http_500",
                              !.lastError = error]
  ELSE IF rec.mode = "batch"
         THEN NextCenter([Tried(rec, "raised") EXCEPT !.lastError = error], r)
  ELSE IF rec.attempt < rec.attemptsAllowed
         THEN EnterRc([Tried(rec, "raised") EXCEPT !.attempt = @ + 1,
                                                   !.lastError = error],
                      r, rec.center, "rc_fetch")
  ELSE NextCenter([Tried(rec, "raised") EXCEPT !.failed = @ + 1,
                                               !.lastError = error], r)

\* the timestamps `new Date()` may give a call that began at startClock: the
\* Overpass round trip takes time, so later than the call's begin; two calls
\* in progress together may read the same timestamp
FreshTimes(r) ==
  {clock + 1} \cup (IF clock > ref[r].startClock THEN {clock} ELSE {})

\* the lat/lon of the center rows, as the query of a refresh reads them
CenterPlaces == [id \in DOMAIN cancer_centers |-> cancer_centers[id].place]

\* the place the upstream answer gives office k: the office may have moved
ResponsePlace(k, shift) == OfficePlace(k) + shift

\* createLinks (refresh.ts 69-81): haversineMeters of the center object the
\* refresh holds and of the office of the answer
Distance(centerPlace, officePlace) ==
  IF centerPlace > officePlace THEN centerPlace - officePlace
  ELSE officePlace - centerPlace

\* geo after the statements i..last of a batch: an office statement writes
\* lat/lon of the offices row, a link statement distance_m of the link
Located(stmts, i, last, centerPlace, shift) ==
  LET officeKeys == {stmts[j].osm : j \in {x \in i..last : stmts[x].kind = "office"}}
      links == {<<stmts[j].center, stmts[j].osm>> :
                  j \in {x \in i..last : stmts[x].kind = "link"}}
  IN [office |-> [k \in DOMAIN geo.office \cup officeKeys |->
                    IF k \in officeKeys THEN ResponsePlace(k, shift)
                    ELSE geo.office[k]],
      distance |-> [l \in DOMAIN geo.distance \cup links |->
                      IF l \in links
                        THEN Distance(centerPlace, ResponsePlace(l[2], shift))
                      ELSE geo.distance[l]]]

\* router.ts 524-609: POST /api/admin/refresh-center/{id}
RefreshCenterStart(r, c, maxOfficesRaw, authorization) ==
  /\ RefFree(r, "center")
  /\ LET idle == [RefIdle(ref[r].budget - 1, ref[r].kinds) EXCEPT
                    !.mode = "center", !.authorization = authorization]
         maxOffices == ParseMaxOffices(maxOfficesRaw)
     IN IF ~MayStart(authorization)
          THEN SetRef(r, [idle EXCEPT !.pc = "done", !.outcome = "http_401"])
        ELSE IF ~CenterIsActive(c)
          THEN SetRef(r, [idle EXCEPT !.pc = "done", !.outcome = "http_404"])
        ELSE IF maxOffices.bad
          THEN SetRef(r, [idle EXCEPT !.pc = "done", !.outcome = "http_400"])
        ELSE SetRef(r, EnterRc([idle EXCEPT
                                  !.visited = <<c>>,
                                  !.centerPlace = CenterPlaces,
                                  !.maxOffices = ResolveMaxOffices(maxOffices.value)],
                               r, c, "rc_load"))
  /\ UNCHANGED <<tables, clock, center_cursor, fixed, imports, sub, dec, rd>>

\* refresh.ts 232-234: the company index and the banned set of a manual refresh
RcLoad(r) ==
  /\ ref[r].pc = "rc_load"
  /\ SetRef(r, [ref[r] EXCEPT !.pc = "rc_fetch",
                              !.companyMatchIndex = loadCompanyMatchIndex,
                              !.banned = loadBannedOfficeKeys])
  /\ UNCHANGED <<tables, clock, center_cursor, fixed, imports, sub, dec, rd>>

\* refresh.ts 236-246: the Overpass request fails, or it answers;
\* `normalizedOffices` is what normalisation keeps of the answer
RcFetch(r) ==
  /\ ref[r].pc = "rc_fetch"
  /\ \/ /\ SetRef(r, RcThrow(ref[r], r, "overpass"))
        /\ UNCHANGED clock
     \/ \E normalizedOffices \in DistinctSeqs(overpass), seenAt \in FreshTimes(r),
           shift \in load.shifts :
          /\ seenAt <= MaxClock
          /\ clock' = Max(clock, seenAt)
          /\ LET cappedOffices == capOfficesByLimit(ref[r].center, normalizedOffices,
                                                   ref[r].maxOffices)
                 filtered == filterOfficesWithKnownCompanies(cappedOffices,
                                                   ref[r].companyMatchIndex)
                 matchedOffices == filtered.matchedOffices
                 accepted == SelectKeys(matchedOffices, OfficeKeys \ ref[r].banned)
             IN /\ SetRef(r, [ref[r] EXCEPT
                     !.seenAt = seenAt, !.accepted = accepted, !.pos = 1,
                     !.shift = shift,
                     !.cut = Len(cappedOffices) < Len(normalizedOffices),
                     !.officesFetched = Len(cappedOffices),
                     !.matchedCount = filtered.matchedCount,
                     !.filteredOutCount = filtered.filteredOutCount,
                     !.pc = IF accepted = <<>> THEN "rc_prune_unseen"
                            ELSE "rc_batch"])
  /\ UNCHANGED <<tables, center_cursor, fixed, imports, sub, dec, rd>>

\* db.ts 780-782: the next chunk of statements, one db.batch call; `written`
\* and `linked` record, for C19, the offices rows the committed chunks of the
\* call inserted and the center_office rows they inserted or updated
RcBatch(r) ==
  /\ ref[r].pc = "rc_batch"
  /\ LET stmts == Statements(ref[r].center, ref[r].accepted, ref[r].seenAt)
         last == Min(ref[r].pos + ChunkSize - 1, Len(stmts))
         res == batch(stmts, ref[r].pos, last, offices, center_office)
     IN /\ offices' = res.offices
        /\ center_office' = res.center_office
        /\ geo' = IF res.ok
                     THEN Located(stmts, ref[r].pos, last,
                                  ref[r].centerPlace[ref[r].center], ref[r].shift)
                   ELSE geo
        /\ IF res.ok
             THEN SetRef(r, [ref[r] EXCEPT
                    !.pos = last + 1,
                    !.written = @ \cup (res.offices \ offices),
                    !.linked = @ \cup
                      {l \in DOMAIN res.center_office :
                         l \notin DOMAIN center_office
                         \/ center_office[l] # res.center_office[l]},
                    !.pc = IF last = Len(stmts) THEN "rc_enrich"
                           ELSE "rc_batch"])
             ELSE SetRef(r, RcThrow(ref[r], r, "foreign_key"))
  /\ UNCHANGED <<cancer_centers, office_deletion_flags, banned_offices,
                 clock, center_cursor, overpass, env, load, nrm, ovp, imports,
                 sub, dec, rd>>

\* refresh.ts 253-266: Wikidata enrichment; an exception is logged and dropped
\* mutation of RcEnrich: no try/catch around enrichOfficesWithWikidata
C26_EnrichmentThrows(r) ==
  /\ ref[r].pc = "rc_enrich"
  /\ \E enrichment \in load.enrichments :
       SetRef(r, IF enrichment.raised THEN RcThrow(ref[r], r, "wikidata")
                 ELSE [ref[r] EXCEPT
                         !.pc = "rc_prune_unseen", !.enrichment = "returned",
                         !.wikidataEntitiesFetched = enrichment.entitiesFetched,
                         !.wikidataOfficesUpdated = enrichment.officesUpdated])
  /\ UNCHANGED <<tables, clock, center_cursor, fixed, imports, sub, dec, rd>>

\* refresh.ts 141-212 and 253-266: enrichOfficesWithWikidata returns its two
\* counts or raises; the updates it applies touch columns of offices rows the
\* model does not hold; `enrichment` records, for C26, how the call ended
RcEnrich(r) ==
  /\ ref[r].pc = "rc_enrich"
  /\ \E enrichment \in load.enrichments :
       SetRef(r, IF enrichment.raised
                   THEN [ref[r] EXCEPT !.pc = "rc_prune_unseen",
                                       !.enrichment = "raised"]
                 ELSE [ref[r] EXCEPT
                         !.pc = "rc_prune_unseen", !.enrichment = "returned",
                         !.wikidataEntitiesFetched = enrichment.entitiesFetched,
                         !.wikidataOfficesUpdated = enrichment.officesUpdated])
  /\ UNCHANGED <<tables, clock, center_cursor, fixed, imports, sub, dec, rd>>

\* refresh.ts 269-273
RcPruneUnseen(r) ==
  /\ ref[r].pc = "rc_prune_unseen"
  /\ center_office' = pruneCenterLinksNotSeenSince(ref[r].center, ref[r].seenAt)
  /\ SetRef(r, [ref[r] EXCEPT
       !.pc = "rc_prune_stale",
       !.pruned = Cardinality(DOMAIN center_office \ DOMAIN center_office')])
  /\ UNCHANGED <<cancer_centers, offices, office_deletion_flags,
                 banned_offices, clock, center_cursor, fixed, imports, sub, dec, rd>>

\* refresh.ts 274-287
RcPruneStale(r) ==
  /\ ref[r].pc = "rc_prune_stale"
  /\ center_office' = pruneStaleCenterLinks(ref[r].center, StaleLinkAge)
  /\ SetRef(r, RcReturn([ref[r] EXCEPT
       !.pruned = @ + Cardinality(DOMAIN center_office \ DOMAIN center_office')],
       r))
  /\ UNCHANGED <<cancer_centers, offices, office_deletion_flags,
                 banned_offices, clock, center_cursor, fixed, imports, sub, dec, rd>>

\* refresh.ts 290-293: POST /api/admin/refresh-batch and the cron trigger
SchedStart(r, authorization) ==
  /\ RefFree(r, "batch")
  /\ LET idle == [RefIdle(ref[r].budget - 1, ref[r].kinds) EXCEPT
                    !.mode = "batch", !.authorization = authorization]
     IN IF ~MayStart(authorization)
          THEN SetRef(r, [idle EXCEPT !.pc = "done", !.outcome = "http_401"])
        ELSE SetRef(r, [idle EXCEPT
               !.pc = "s_list",
               !.batchSize = toPositiveInt(env.BATCH_CENTERS_PER_RUN,
                                           DefaultBatchCentersPerRun),
               !.cursorStart = getRefreshCursor,
               !.before = [offices |-> offices,
                           links |-> DOMAIN center_office,
                           follows |-> /\ ref[r].mode = "batch"
                                       /\ ref[r].outcome \in {"ok", "reset"}]])
  /\ UNCHANGED <<tables, clock, center_cursor, fixed, imports, sub, dec, rd>>

\* refresh.ts 295-296
SchedList(r) ==
  /\ ref[r].pc = "s_list"
  /\ LET centers == listCentersAfterCursor(ref[r].cursorStart, ref[r].batchSize)
     IN SetRef(r, [ref[r] EXCEPT
          !.centers = centers,
          !.centerPlace = CenterPlaces,
          !.pc = IF centers = <<>> THEN "s_reset" ELSE "s_load"])
  /\ UNCHANGED <<tables, clock, center_cursor, fixed, imports, sub, dec, rd>>

\* refresh.ts 297-304
SchedReset(r) ==
  /\ ref[r].pc = "s_reset"
  /\ center_cursor' = setRefreshCursor(0)
  /\ SetRef(r, [ref[r] EXCEPT !.pc = "done", !.outcome = "reset",
                              !.before = NoTables])
  /\ UNCHANGED <<tables, clock, fixed, imports, sub, dec, rd>>

\* mutation of SchedLoad: the cursor is written before the centers are
\* refreshed
C24_CursorFirst(r) ==
  /\ ref[r].pc = "s_load"
  /\ center_cursor' = setRefreshCursor(ref[r].centers[Len(ref[r].centers)])
  /\ SetRef(r, NextCenter([ref[r] EXCEPT
                            !.companyMatchIndex = loadCompanyMatchIndex,
                            !.banned = loadBannedOfficeKeys], r))
  /\ UNCHANGED <<tables, clock, fixed, imports, sub, dec, rd>>

\* refresh.ts 313-316: the snapshots of the batch, then the first center
SchedLoad(r) ==
  /\ ref[r].pc = "s_load"
  /\ SetRef(r, NextCenter([ref[r] EXCEPT
                            !.companyMatchIndex = loadCompanyMatchIndex,
                            !.banned = loadBannedOfficeKeys], r))
  /\ UNCHANGED <<tables, clock, center_cursor, fixed, imports, sub, dec, rd>>

\* refresh.ts 290-376: the runtime ends the scheduled run at one of its
\* awaits; what the run had not yet done is not done, its locals stay as
\* they were
Interrupt(r) ==
  /\ ref[r].mode = "batch"
  /\ ref[r].pc \notin {"idle", "done"}
  /\ SetRef(r, [ref[r] EXCEPT !.pc = "done", !.outcome = "interrupted"])
  /\ UNCHANGED <<tables, clock, center_cursor, fixed, imports, sub, dec, rd>>

\* refresh.ts 360-375
SchedSetCursor(r) ==
  /\ ref[r].pc = "s_set_cursor"
  /\ center_cursor' = setRefreshCursor(ref[r].centers[Len(ref[r].centers)])
  /\ SetRef(r, [ref[r] EXCEPT !.pc = "done", !.outcome = "ok",
                              !.before = NoTables])
  /\ UNCHANGED <<tables, clock, fixed, imports, sub, dec, rd>>

\* the batchSize options a refresh-all request may carry; 0 is `undefined`
AllBatchOptions == 0..2

\* refresh.ts 390-396
AllBatchSize(opt) ==
  Max(1, toPositiveInt(IF opt # 0 THEN StringOf(opt)
                       ELSE IF env.BATCH_CENTERS_PER_RUN # <<>>
                              THEN env.BATCH_CENTERS_PER_RUN
                       ELSE StringOf(DefaultBatchCentersPerRun),
                       DefaultBatchCentersPerRun))

\* router.ts 624-764, refresh.ts 378-451: POST /api/admin/refresh-all
AllStart(r, fullClean, optBatch, retryCount, maxOfficesRaw, authorization) ==
  /\ RefFree(r, "all")
  /\ LET idle == [RefIdle(ref[r].budget - 1, ref[r].kinds) EXCEPT
                    !.mode = "all", !.authorization = authorization]
         maxOffices == ParseMaxOffices(maxOfficesRaw)
     IN IF ~MayStart(authorization)
          THEN SetRef(r, [idle EXCEPT !.pc = "done", !.outcome = "http_401"])
        ELSE IF maxOffices.bad
          THEN SetRef(r, [idle EXCEPT !.pc = "done", !.outcome = "http_400"])
          ELSE SetRef(r, [idle EXCEPT
                 !.pc = IF fullClean THEN "p_links" ELSE "a_load",
                 !.batchSize = AllBatchSize(optBatch),
                 !.attemptsAllowed = retryCount + 1,
                 !.maxOffices = ResolveMaxOffices(maxOffices.value)])
  /\ UNCHANGED <<tables, clock, center_cursor, fixed, imports, sub, dec, rd>>

\* db.ts 921: DELETE FROM center_office
PurgeLinks(r) ==
  /\ ref[r].pc = "p_links"
  /\ center_office' = Restrict(center_office, {})
  /\ SetRef(r, [ref[r] EXCEPT !.pc = "p_offices"])
  /\ UNCHANGED <<cancer_centers, offices, office_deletion_flags,
                 banned_offices, clock, center_cursor, fixed, imports, sub, dec, rd>>

\* db.ts 922: DELETE FROM offices (cascading to center_office)
PurgeOffices(r) ==
  /\ ref[r].pc = "p_offices"
  /\ offices' = {}
  /\ center_office' = CascadeLinks(offices)
  /\ SetRef(r, [ref[r] EXCEPT !.pc = "p_cursor"])
  /\ UNCHANGED <<cancer_centers, office_deletion_flags, banned_offices,
                 clock, center_cursor, fixed, imports, sub, dec, rd>>

\* db.ts 923
PurgeCursor(r) ==
  /\ ref[r].pc = "p_cursor"
  /\ center_cursor' = setRefreshCursor(0)
  /\ SetRef(r, [ref[r] EXCEPT !.pc = "a_load"])
  /\ UNCHANGED <<tables, clock, fixed, imports, sub, dec, rd>>

\* refresh.ts 453-454
AllLoad(r) ==
  /\ ref[r].pc = "a_load"
  /\ SetRef(r, [ref[r] EXCEPT !.pc = "a_list",
                              !.companyMatchIndex = loadCompanyMatchIndex,
                              !.banned = loadBannedOfficeKeys])
  /\ UNCHANGED <<tables, clock, center_cursor, fixed, imports, sub, dec, rd>>

\* refresh.ts 457-462 and 550-593
AllList(r) ==
  /\ ref[r].pc = "a_list"
  /\ LET centers == listCentersAfterCursor(ref[r].cursor, ref[r].batchSize)
     IN IF centers = <<>>
          THEN SetRef(r, [ref[r] EXCEPT
                 !.pc = "done",
                 !.outcome = IF ref[r].failed = 0 THEN "ok" ELSE "failed"])
          ELSE SetRef(r, NextCenter([ref[r] EXCEPT !.centers = centers,
                                                   !.centerPlace = CenterPlaces,
                                                   !.idx = 0], r))
  /\ UNCHANGED <<tables, clock, center_cursor, fixed, imports, sub, dec, rd>>

\* mutation of AllSetCursor: the cursor is stored but the loop's own cursor
\* is not advanced
C29_CursorNotAdvanced(r) ==
  /\ ref[r].pc = "a_set_cursor"
  /\ center_cursor' = setRefreshCursor(ref[r].centers[Len(ref[r].centers)])
  /\ SetRef(r, [ref[r] EXCEPT !.pc = "a_list"])
  /\ UNCHANGED <<tables, clock, fixed, imports, sub, dec, rd>>

\* refresh.ts 546-547
AllSetCursor(r) ==
  /\ ref[r].pc = "a_set_cursor"
  /\ center_cursor' = setRefreshCursor(ref[r].centers[Len(ref[r].centers)])
  /\ SetRef(r, [ref[r] EXCEPT !.pc = "a_list",
                              !.cursor = ref[r].centers[Len(ref[r].centers)]])
  /\ UNCHANGED <<tables, clock, fixed, imports, sub, dec, rd>>

\* --------------------------------------------- GET /api/centers/{id}/offices
MaxReadLimit == 5000

\* limit is 0 when the request has none (null)
RdIdle == [pc |-> "idle", centerId |-> 0, limitRaw |-> <<>>, limit |-> 0,
           http |-> 0, result |-> {}, bannedAtQuery |-> {}, hidden |-> {}]

\* router.ts 132-145: the limit parameter; absent or blank is null (0 here),
\* no number is refused, a number is clamped to 1..5000
ParseReadLimit(limitRaw) ==
  IF sanitizeText(limitRaw) = <<>> THEN [bad |-> FALSE, value |-> 0]
  ELSE LET requestedLimit == parseInt(TrimLeft(limitRaw))
       IN IF requestedLimit.nan THEN [bad |-> TRUE, value |-> 0]
          ELSE [bad |-> FALSE,
                value |-> clamp(requestedLimit.value, 1, MaxReadLimit)]

\* db.ts 228-229: ORDER BY co.distance_m ASC LIMIT ?; the distances are not
\* part of the model, so any `limit` of the rows may be the nearest ones
LimitedRows(rows, limit) ==
  IF limit = 0 \/ Cardinality(rows) <= limit THEN {rows}
  ELSE {s \in SUBSET rows : Cardinality(s) = limit}

\* db.ts 180-261: the offices linked to the center, except the banned ones
\* (JOIN offices, NOT EXISTS banned_offices)
listOfficesForCenter(c) ==
  {k \in offices : <<c, k>> \in DOMAIN center_office
                   /\ k \notin DOMAIN banned_offices}

\* router.ts 111-131: getCenterById
ReadStart(c, limitRaw) ==
  /\ rd.pc = "idle"
  /\ LET limit == ParseReadLimit(limitRaw)
     IN IF ~CenterIsActive(c)
          THEN rd' = [rd EXCEPT !.pc = "done", !.centerId = c, !.http = 404]
        ELSE IF limit.bad
          THEN rd' = [rd EXCEPT !.pc = "done", !.centerId = c,
                                !.limitRaw = limitRaw, !.http = 400]
        ELSE rd' = [rd EXCEPT !.pc = "list", !.centerId = c,
                              !.limitRaw = limitRaw, !.limit = limit.value]
  /\ UNCHANGED <<tables, clock, center_cursor, fixed, imports, sub, dec, ref>>

\* router.ts 146-250: the list query; bannedAtQuery and hidden record, for C2,
\* the banned keys at the time of the query and those of them that had rows
ReadList ==
  /\ rd.pc = "list"
  /\ \E rows \in LimitedRows(listOfficesForCenter(rd.centerId), rd.limit) :
     rd' = [rd EXCEPT
       !.pc = "done", !.http = 200,
       !.result = rows,
       !.bannedAtQuery = DOMAIN banned_offices,
       !.hidden = {k \in DOMAIN banned_offices \cap offices :
                     <<rd.centerId, k>> \in DOMAIN center_office}]
  /\ UNCHANGED <<tables, clock, center_cursor, fixed, imports, sub, dec, ref>>

\* ------------------------------------------------------- CSV uploads
\* A CSV file is the value of its form field: `form` tells whether the
\* request is multipart and carries the file, `header` whether the first
\* line names the required columns, `lines` are the data lines.  A centers
\* line gives center_code, name and whether lat/lon and source_url are
\* acceptable; a companies line gives company_name and known_aliases.
\* `tail` is the text of the file after its last line: nothing, an empty
\* quoted value, or a quoted value the file does not close.
NoToken == <<>>

CodeChars ==
  SeqToSet(Letters) \cup SeqToSet(Capitals) \cup SeqToSet(Digits) \cup {"_", "-"}

\* Map.set: a key met again keeps its place and takes the later value
RECURSIVE DedupeByKey(_, _, _)
DedupeByKey(deduped, keys, rows) ==
  IF rows = <<>> THEN deduped
  ELSE LET row == Head(rows)
           key == Head(keys)
           at == {i \in 1..Len(deduped) : deduped[i].key = key}
       IN DedupeByKey(IF at = {} THEN Append(deduped, [key |-> key, row |-> row])
                      ELSE [deduped EXCEPT ![CHOOSE i \in at : TRUE].row = row],
                      Tail(keys), Tail(rows))

DedupedRows(keys, rows) ==
  LET deduped == DedupeByKey(<<>>, keys, rows)
  IN [i \in 1..Len(deduped) |-> deduped[i].row]

\* csv.ts 19-80 parseCsvRows: whether the scan of the text from position
\* index on ends inside a quoted value ("" inside quotes is a quote character)
RECURSIVE EndsInQuotes(_, _, _)
EndsInQuotes(csvText, index, inQuotes) ==
  IF index > Len(csvText) THEN inQuotes
  ELSE IF inQuotes /\ csvText[index] = "\""
         THEN IF index < Len(csvText) /\ csvText[index + 1] = "\""
                THEN EndsInQuotes(csvText, index + 2, TRUE)
              ELSE EndsInQuotes(csvText, index + 1, FALSE)
  ELSE IF inQuotes THEN EndsInQuotes(csvText, index + 1, TRUE)
  ELSE EndsInQuotes(csvText, index + 1, csvText[index] = "\"")

\* csv.ts 78-80: parseCsvRows throws on an unterminated quote
UnterminatedQuote(file) == EndsInQuotes(file.tail, 1, FALSE)

CenterLineAccepted(line) ==
  LET centerCode == sanitizeText(line.center_code)
      name == sanitizeText(line.name)
  IN /\ centerCode # <<>>
     /\ SeqToSet(centerCode) \subseteq CodeChars
     /\ name # <<>>
     /\ line.placeOk

\* mutation of parseCentersCsv: a parser that never throws
C21_ParseAnything(file) ==
  LET accepted == SelectSeq(file.lines, CenterLineAccepted)
      rows == [i \in 1..Len(accepted) |->
                 [centerCode |-> sanitizeText(accepted[i].center_code),
                  name |-> sanitizeText(accepted[i].name),
                  place |-> accepted[i].place]]
      keys == [i \in 1..Len(rows) |-> rows[i].centerCode]
  IN [threw |-> FALSE, rows |-> DedupedRows(keys, rows),
      issues |-> Len(file.lines) - Len(accepted)]

parseCentersCsv(file) ==
  IF UnterminatedQuote(file) \/ ~file.header THEN [threw |-> TRUE, rows |-> <<>>, issues |-> 0]
  ELSE LET accepted == SelectSeq(file.lines, CenterLineAccepted)
           rows == [i \in 1..Len(accepted) |->
                      [centerCode |-> sanitizeText(accepted[i].center_code),
                       name |-> sanitizeText(accepted[i].name),
                       place |-> accepted[i].place]]
           keys == [i \in 1..Len(rows) |-> rows[i].centerCode]
       IN [threw |-> FALSE, rows |-> DedupedRows(keys, rows),
           issues |-> Len(file.lines) - Len(accepted)]

\* sanitizeKnownAliases: the aliases that differ, once normalised, from the
\* company name and from the aliases before them
RECURSIVE KeepAliases(_, _, _)
KeepAliases(kept, aliases, companyNameNormalized) ==
  IF aliases = <<>> THEN kept
  ELSE LET alias == sanitizeText(Head(aliases))
           aliasNormalized == normalizeCompanyName(alias)
       IN KeepAliases(IF \/ alias = <<>>
                         \/ aliasNormalized = <<>>
                         \/ aliasNormalized = companyNameNormalized
                         \/ \E i \in 1..Len(kept) :
                              normalizeCompanyName(kept[i]) = aliasNormalized
                      THEN kept ELSE Append(kept, alias),
                      Tail(aliases), companyNameNormalized)

CompanyLineAccepted(line) ==
  /\ sanitizeText(line.company_name) # <<>>
  /\ normalizeCompanyName(sanitizeText(line.company_name)) # <<>>

parseCompaniesCsv(file) ==
  IF UnterminatedQuote(file) \/ ~file.header THEN [threw |-> TRUE, rows |-> <<>>, issues |-> 0]
  ELSE LET accepted == SelectSeq(file.lines, CompanyLineAccepted)
           rows == [i \in 1..Len(accepted) |->
                      LET companyName == sanitizeText(accepted[i].company_name)
                      IN [companyName |-> companyName,
                          companyNameNormalized |-> normalizeCompanyName(companyName),
                          knownAliases |->
                            KeepAliases(<<>>, accepted[i].known_aliases,
                                        normalizeCompanyName(companyName))]]
           keys == [i \in 1..Len(rows) |-> rows[i].companyNameNormalized]
       IN [threw |-> FALSE, rows |-> DedupedRows(keys, rows),
           issues |-> Len(file.lines) - Len(accepted)]

\* db.ts 936-939: SELECT id FROM cancer_centers WHERE center_code = ?
CenterIdsWithCode(centerCode) ==
  {id \in DOMAIN cancer_centers : cancer_centers[id].center_code = centerCode}

\* db.ts 941-973: INSERT INTO cancer_centers ... ON CONFLICT(center_code)
\* DO UPDATE SET ..., is_active = 1, last_csv_sync_token = excluded...
UpsertCenter(row, syncToken) ==
  LET written == [is_active |-> TRUE, center_code |-> row.centerCode,
                  name |-> row.name, place |-> row.place,
                  last_csv_sync_token |-> syncToken]
      found == CenterIdsWithCode(row.centerCode)
  IN IF found = {}
       THEN [id \in DOMAIN cancer_centers \cup {Cardinality(DOMAIN cancer_centers) + 1} |->
               IF id \in DOMAIN cancer_centers THEN cancer_centers[id] ELSE written]
     ELSE [id \in DOMAIN cancer_centers |->
             IF id \in found THEN written ELSE cancer_centers[id]]

\* db.ts 982-990: the rows UPDATE ... SET is_active = 0 WHERE is_active = 1
\* AND COALESCE(last_csv_sync_token, '') <> ? changes
CentersMissingFromSync(syncToken) ==
  {id \in DOMAIN cancer_centers :
     /\ cancer_centers[id].is_active
     /\ cancer_centers[id].last_csv_sync_token # syncToken}

disableCentersMissingFromSync(syncToken) ==
  [id \in DOMAIN cancer_centers |->
     IF id \in CentersMissingFromSync(syncToken)
       THEN [cancer_centers[id] EXCEPT !.is_active = FALSE]
     ELSE cancer_centers[id]]

\* db.ts 1004-1025: INSERT INTO companies ... ON CONFLICT(company_name_normalized)
\* DO NOTHING
CompanyConflict(normalizedName) ==
  \E i \in 1..Len(companies) : companies[i].company_name_normalized = normalizedName

InsertCompany(row, normalizedName) ==
  IF CompanyConflict(normalizedName) THEN companies
  ELSE Append(companies, [company_name |-> row.companyName,
                          company_name_normalized |-> normalizedName,
                          known_aliases |-> row.knownAliases])

UpIdle(budget, kinds) ==
  [pc |-> "idle", kind |-> "none", budget |-> budget, kinds |-> kinds,
   authorization |-> <<>>, file |-> <<>>, rows |-> <<>>, issues |-> 0, i |-> 0, syncToken |-> NoToken,
   existing |-> FALSE, inserted |-> 0, updated |-> 0, skipped |-> 0,
   disabled |-> 0, outcome |-> "none",
   before |-> <<>>, overlap |-> FALSE, repeat |-> FALSE, last |-> FALSE]

UpFree(p, kind) ==
  up[p].pc \in {"idle", "done"} /\ up[p].budget > 0 /\ kind \in up[p].kinds

UpRunning(p, kind) == up[p].kind = kind /\ up[p].pc \notin {"idle", "done", "off"}

\* the record of p becomes rec.  `overlap` records that another upload of the
\* same kind was writing while this one was, `last` that the upload wrote the
\* table last and alone, and `repeat` that an upload sends the file of the
\* upload that wrote the table last
SetUp(p, rec) ==
  up' = [x \in Uploaders |->
           IF x = p THEN rec
           ELSE IF rec.kind = up[x].kind /\ rec.pc # "done" /\ UpRunning(x, rec.kind)
                  THEN [up[x] EXCEPT !.overlap = TRUE]
           ELSE IF rec.kind = up[x].kind /\ rec.pc = "done" /\ rec.outcome = "http_200"
                  THEN [up[x] EXCEPT !.last = FALSE]
           ELSE up[x]]

UploadRejected(p, kind, authorization, outcome) ==
  [UpIdle(up[p].budget - 1, up[p].kinds) EXCEPT
     !.pc = "done", !.kind = kind, !.authorization = authorization,
     !.outcome = outcome]

UploadAccepted(p, kind, authorization, file, parsed, table, firstPc) ==
  [UpIdle(up[p].budget - 1, up[p].kinds) EXCEPT
     !.pc = firstPc, !.kind = kind, !.authorization = authorization,
     !.file = file, !.rows = parsed.rows,
     !.issues = parsed.issues, !.i = 1,
     !.syncToken = <<p, up[p].budget>>,
     !.before = table,
     !.overlap = \E x \in Uploaders \ {p} : UpRunning(x, kind),
     !.repeat = \E x \in Uploaders :
                  /\ up[x].kind = kind /\ up[x].last /\ up[x].file = file
                  /\ \A y \in Uploaders \ {p} : ~UpRunning(y, kind)]

\* router.ts 360-419: POST /api/admin/centers/upload-csv up to the sync token
UploadCentersStart(p, file, authorization) ==
  /\ UpFree(p, "centers")
  /\ LET parsed == parseCentersCsv(file)
     IN IF ~isAdminAuthorized(authorization, env.ADMIN_TOKEN)
          THEN SetUp(p, UploadRejected(p, "centers", authorization, "http_401"))
        ELSE IF file.form # "file" \/ parsed.threw \/ parsed.rows = <<>>
          THEN SetUp(p, [UploadRejected(p, "centers", authorization, "http_400")
                           EXCEPT !.file = file])
        ELSE SetUp(p, UploadAccepted(p, "centers", authorization, file, parsed,
                                     cancer_centers, "uc_select"))
  /\ UNCHANGED <<tables, clock, center_cursor, fixed, companies, adm, sub, dec, ref, rd>>

\* db.ts 936-939
UcSelect(p) ==
  /\ up[p].pc = "uc_select"
  /\ SetUp(p, [up[p] EXCEPT
                 !.pc = "uc_upsert",
                 !.existing = CenterIdsWithCode(up[p].rows[up[p].i].centerCode) # {}])
  /\ UNCHANGED <<tables, clock, center_cursor, fixed, companies, adm, sub, dec, ref, rd>>

\* db.ts 941-975 and router.ts 423-430
UcUpsert(p) ==
  /\ up[p].pc = "uc_upsert"
  /\ cancer_centers' = UpsertCenter(up[p].rows[up[p].i], up[p].syncToken)
  /\ SetUp(p, [up[p] EXCEPT
                 !.inserted = IF up[p].existing THEN @ ELSE @ + 1,
                 !.updated = IF up[p].existing THEN @ + 1 ELSE @,
                 !.i = @ + 1,
                 !.pc = IF up[p].i = Len(up[p].rows) THEN "uc_disable"
                        ELSE "uc_select"])
  /\ UNCHANGED <<offices, center_office, office_deletion_flags, banned_offices,
                 clock, center_cursor, fixed, companies, adm, sub, dec, ref, rd>>

\* router.ts 432-441
UcDisable(p) ==
  /\ up[p].pc = "uc_disable"
  /\ cancer_centers' = disableCentersMissingFromSync(up[p].syncToken)
  /\ SetUp(p, [up[p] EXCEPT
                 !.pc = "done", !.outcome = "http_200",
                 !.disabled = Cardinality(CentersMissingFromSync(up[p].syncToken)),
                 !.last = ~up[p].overlap])
  /\ UNCHANGED <<offices, center_office, office_deletion_flags, banned_offices,
                 clock, center_cursor, fixed, companies, adm, sub, dec, ref, rd>>

\* router.ts 443-498: POST /api/admin/companies/upload-csv up to the loop
UploadCompaniesStart(p, file, authorization) ==
  /\ UpFree(p, "companies")
  /\ LET parsed == parseCompaniesCsv(file)
     IN IF ~isAdminAuthorized(authorization, env.ADMIN_TOKEN)
          THEN SetUp(p, UploadRejected(p, "companies", authorization, "http_401"))
        ELSE IF file.form # "file" \/ parsed.threw \/ parsed.rows = <<>>
          THEN SetUp(p, UploadRejected(p, "companies", authorization, "http_400"))
        ELSE SetUp(p, UploadAccepted(p, "companies", authorization, file, parsed,
                                     companies, "co_insert"))
  /\ UNCHANGED <<tables, clock, center_cursor, fixed, companies, adm, sub, dec, ref, rd>>

\* db.ts 995-1028 and router.ts 500-522: one row of the file
CoInsert(p) ==
  /\ up[p].pc = "co_insert"
  /\ LET row == up[p].rows[up[p].i]
         normalizedName == IF row.companyNameNormalized # <<>>
                             THEN row.companyNameNormalized
                           ELSE normalizeCompanyName(row.companyName)
         skip == normalizedName = <<>> \/ CompanyConflict(normalizedName)
         last == up[p].i = Len(up[p].rows)
     IN /\ companies' = IF normalizedName = <<>> THEN companies
                        ELSE InsertCompany(row, normalizedName)
        /\ SetUp(p, [up[p] EXCEPT
                       !.inserted = IF skip THEN @ ELSE @ + 1,
                       !.skipped = IF skip THEN @ + 1 ELSE @,
                       !.i = @ + 1,
                       !.pc = IF last THEN "done" ELSE "co_insert",
                       !.outcome = IF last THEN "http_200" ELSE @,
                       !.last = last /\ ~up[p].overlap])
  /\ UNCHANGED <<tables, clock, center_cursor, fixed, adm, sub, dec, ref, rd>>

\* ----------- GET /api/admin/offices/deletion-flags and GET /api/admin/status
AdmIdle(budget) ==
  [pc |-> "idle", route |-> "none", budget |-> budget, authorization |-> <<>>,
   status |-> "none", includeCounts |-> FALSE, http |-> 0, items |-> <<>>,
   centersTotal |-> 0, activeCenters |-> 0, refreshCursor |-> 0,
   officesTotal |-> 0, centerOfficeLinksTotal |-> 0]

AdmFree == adm.pc \in {"idle", "done"} /\ adm.budget > 0

ALLOWED_DELETION_FLAG_STATUS == {"pending", "approved", "rejected", "all"}

\* db.ts 409-469: the ids of the flags of the status, ORDER BY submitted_at
\* DESC, id DESC; the LIMIT (1..500) is beyond the flags of the model
RECURSIVE FlagsFrom(_, _)
FlagsFrom(f, status) ==
  IF f = 0 THEN <<>>
  ELSE IF status = "all" \/ office_deletion_flags[f].status = status
         THEN <<f>> \o FlagsFrom(f - 1, status)
       ELSE FlagsFrom(f - 1, status)

listOfficeDeletionFlags(status) == FlagsFrom(Len(office_deletion_flags), status)

\* router.ts 766-786
AdminFlagsStart(authorization, requestedStatus) ==
  /\ AdmFree
  /\ LET idle == [AdmIdle(adm.budget - 1) EXCEPT
                    !.route = "flags", !.authorization = authorization,
                    !.status = requestedStatus]
     IN adm' = IF ~isAdminAuthorized(authorization, env.ADMIN_TOKEN)
                 THEN [idle EXCEPT !.pc = "done", !.http = 401]
               ELSE IF requestedStatus \notin ALLOWED_DELETION_FLAG_STATUS
                 THEN [idle EXCEPT !.pc = "done", !.http = 400]
               ELSE [idle EXCEPT !.pc = "flags_list"]
  /\ UNCHANGED <<tables, clock, center_cursor, fixed, companies, up, sub, dec, ref, rd>>

\* router.ts 788-799
AdminFlagsList ==
  /\ adm.pc = "flags_list"
  /\ adm' = [adm EXCEPT !.pc = "done", !.http = 200,
                        !.items = listOfficeDeletionFlags(adm.status)]
  /\ UNCHANGED <<tables, clock, center_cursor, fixed, companies, up, sub, dec, ref, rd>>

\* router.ts 877-882
AdminStatusStart(authorization, includeCounts) ==
  /\ AdmFree
  /\ LET idle == [AdmIdle(adm.budget - 1) EXCEPT
                    !.route = "status", !.authorization = authorization,
                    !.includeCounts = includeCounts]
     IN adm' = IF ~isAdminAuthorized(authorization, env.ADMIN_TOKEN)
                 THEN [idle EXCEPT !.pc = "done", !.http = 401]
               ELSE [idle EXCEPT !.pc = "status_centers"]
  /\ UNCHANGED <<tables, clock, center_cursor, fixed, companies, up, sub, dec, ref, rd>>

\* db.ts 1073-1086: the three reads of the first Promise.all
AdminStatusCenters ==
  /\ adm.pc = "status_centers"
  /\ adm' = [adm EXCEPT
       !.pc = IF adm.includeCounts THEN "status_counts" ELSE "done",
       !.http = IF adm.includeCounts THEN 0 ELSE 200,
       !.centersTotal = Cardinality(DOMAIN cancer_centers),
       !.activeCenters = Cardinality({c \in DOMAIN cancer_centers :
                                        cancer_centers[c].is_active}),
       !.refreshCursor = getRefreshCursor]
  /\ UNCHANGED <<tables, clock, center_cursor, fixed, companies, up, sub, dec, ref, rd>>

\* db.ts 1091-1101: the two reads of the second Promise.all
AdminStatusCounts ==
  /\ adm.pc = "status_counts"
  /\ adm' = [adm EXCEPT
       !.pc = "done", !.http = 200,
       !.officesTotal = Cardinality(offices),
       !.centerOfficeLinksTotal = Cardinality(DOMAIN center_office)]
  /\ UNCHANGED <<tables, clock, center_cursor, fixed, companies, up, sub, dec, ref, rd>>

\* ------------------------------------------------------------ the requests
SubmitNext ==
  \/ \E p \in Submitters, c \in 1..(NumCenters + 1), k \in OfficeKeys :
       SubmitStart(p, c, k)
  \/ \E p \in Submitters : SubmitOfficeExists(p)
  \/ \E p \in Submitters : SubmitCheckBanned(p)
  \/ \E p \in Submitters : SubmitCheckPending(p)
  \/ \E p \in Submitters : SubmitInsert(p)

DecideNext ==
  \/ \E p \in Deciders, d \in {"approve", "reject"}, f \in 1..(MaxFlags + 1),
        authorization \in load.authorization :
       DecideStart(p, d, f, authorization)
  \/ \E p \in Deciders : ApproveUpdateFlag(p)
  \/ \E p \in Deciders : ApproveUpsertBanned(p)
  \/ \E p \in Deciders : ApproveDeleteLinks(p)
  \/ \E p \in Deciders : ApproveDeleteOffice(p)
  \/ \E p \in Deciders : RejectUpdateFlag(p)

ReadNext ==
  \/ \E c \in 1..(NumCenters + 1), limitRaw \in load.limits :
       ReadStart(c, limitRaw)
  \/ ReadList

AdminNext ==
  \/ \E authorization \in load.authorization, requestedStatus \in load.flagStatuses :
       AdminFlagsStart(authorization, requestedStatus)
  \/ AdminFlagsList
  \/ \E authorization \in load.authorization, includeCounts \in BOOLEAN :
       AdminStatusStart(authorization, includeCounts)
  \/ AdminStatusCenters
  \/ AdminStatusCounts

UploadNext ==
  \/ \E p \in Uploaders, file \in load.centerFiles,
        authorization \in load.authorization :
       UploadCentersStart(p, file, authorization)
  \/ \E p \in Uploaders : UcSelect(p)
  \/ \E p \in Uploaders : UcUpsert(p)
  \/ \E p \in Uploaders : UcDisable(p)
  \/ \E p \in Uploaders, file \in load.companyFiles,
        authorization \in load.authorization :
       UploadCompaniesStart(p, file, authorization)
  \/ \E p \in Uploaders : CoInsert(p)

RcNext ==
  \/ \E r \in Refreshers : RcFetch(r)
  \/ \E r \in Refreshers : RcBatch(r)
  \/ \E r \in Refreshers : RcEnrich(r)
  \/ \E r \in Refreshers : RcPruneUnseen(r)
  \/ \E r \in Refreshers : RcPruneStale(r)

ManualNext ==
  \/ \E r \in Refreshers, c \in 1..(NumCenters + 1),
        maxOfficesRaw \in load.maxOffices, authorization \in load.authorization :
       RefreshCenterStart(r, c, maxOfficesRaw, authorization)
  \/ \E r \in Refreshers : RcLoad(r)

SchedNext ==
  \/ \E r \in Refreshers, authorization \in load.batchTriggers :
       SchedStart(r, authorization)
  \/ \E r \in Refreshers : SchedList(r)
  \/ \E r \in Refreshers : SchedReset(r)
  \/ \E r \in Refreshers : SchedLoad(r)
  \/ \E r \in Refreshers : SchedSetCursor(r)

AllNext ==
  \/ \E r \in Refreshers, fullClean \in BOOLEAN, optBatch \in AllBatchOptions,
        retryCount \in 0..(MaxAttempts - 1), maxOfficesRaw \in load.maxOffices,
        authorization \in load.authorization :
       AllStart(r, fullClean, optBatch, retryCount, maxOfficesRaw, authorization)
  \/ \E r \in Refreshers : PurgeLinks(r)
  \/ \E r \in Refreshers : PurgeOffices(r)
  \/ \E r \in Refreshers : PurgeCursor(r)
  \/ \E r \in Refreshers : AllLoad(r)
  \/ \E r \in Refreshers : AllList(r)
  \/ \E r \in Refreshers : AllSetCursor(r)

\* ------------------------------------------------------------------ claims
ApprovalSteps == {"upd_flag", "ins_banned", "del_links", "del_office"}

\* C1: in every state in which no flag approval is mid-execution, no banned
\* key has a center_office row or an offices row.
C1_BannedHaveNoRows ==
  (\A p \in Deciders : dec[p].pc \notin ApprovalSteps)
    => \A k \in DOMAIN banned_offices : k \notin offices /\ LinksOfOffice(k) = {}

\* C2: the list a read request returns holds no office that was banned at the
\* time of the query, also when link and office rows of a banned key existed.
C2_ReadHidesBanned ==
  (rd.pc = "done" /\ rd.http = 200) => rd.result \cap rd.bannedAtQuery = {}

\* a read answered while a banned office still had its rows for the center
C2_Witness == rd.pc = "done" /\ rd.http = 200 /\ rd.hidden # {}

\* C3: every center_office row references a cancer_centers row and an
\* offices row that exist.
C3_LinksReferenceRows ==
  \A l \in DOMAIN center_office : l[1] \in DOMAIN cancer_centers /\ l[2] \in offices

\* a link upsert was refused because its offices row had been deleted between
\* the chunk of the offices and the chunk of the links
C3_Witness == \E r \in Refreshers : ref[r].lastError = "foreign_key"

\* C4: at most one pending flag per office key.
C4_OnePendingPerOffice ==
  \A k \in OfficeKeys : Cardinality(PendingIds(k)) <= 1

\* two submissions for one office both found no pending flag; the INSERT of
\* the second was refused
C4_Witness ==
  \E p, q \in Submitters :
    /\ p # q /\ sub[p].osm = sub[q].osm
    /\ sub[p].pc = "done" /\ sub[p].outcome = "created"
    /\ sub[q].pc = "done" /\ sub[q].outcome = "http_500"

\* C5: a submission that runs without interleaving answers already_banned and
\* adds no row when the office is banned; else already_pending with the id of
\* the pending flag and no new row when one exists; else it inserts exactly
\* one pending row and answers created with the id of that row.
C5_SubmitOutcomes ==
  [][\A p \in Submitters :
       (sub[p].pc \in {"check_banned", "check_pending", "insert"}
        /\ sub'[p].pc = "done" /\ sub'[p].alone)
       => LET k == sub[p].osm
              n == Len(office_deletion_flags)
          IN IF k \in DOMAIN banned_offices
               THEN /\ sub'[p].outcome = "already_banned"
                    /\ office_deletion_flags' = office_deletion_flags
             ELSE IF \E f \in FlagIds : office_deletion_flags[f].osm = k
                                        /\ office_deletion_flags[f].status = "pending"
               THEN /\ sub'[p].outcome = "already_pending"
                    /\ sub'[p].flagId \in FlagIds
                    /\ office_deletion_flags[sub'[p].flagId].osm = k
                    /\ office_deletion_flags[sub'[p].flagId].status = "pending"
                    /\ office_deletion_flags' = office_deletion_flags
             ELSE /\ sub'[p].outcome = "created"
                  /\ sub'[p].flagId = n + 1
                  /\ Len(office_deletion_flags') = n + 1
                  /\ SubSeq(office_deletion_flags', 1, n) = office_deletion_flags
                  /\ office_deletion_flags'[n + 1].osm = k
                  /\ office_deletion_flags'[n + 1].status = "pending"]_vars

\* one submission created a flag, a later one found it pending, both alone
C5_Witness ==
  \E p, q \in Submitters :
    /\ sub[p].pc = "done" /\ sub[p].alone /\ sub[p].outcome = "created"
    /\ sub[q].pc = "done" /\ sub[q].alone /\ sub[q].outcome = "already_pending"
    /\ sub[q].flagId = sub[p].flagId

\* C6: when an approval of a pending or rejected flag ends, the flag is
\* approved, the office is banned with approved_flag_id the flag, no link and
\* no offices row of the office is left, and deletedLinks and deletedOffices
\* are the numbers of rows removed.
C6_ApprovePostcondition ==
  [][\A p \in Deciders :
       (dec[p].pc = "del_office" /\ dec'[p].pc = "done")
       => LET f == dec[p].flagId
              k == dec[p].osm
          IN /\ office_deletion_flags'[f].status = "approved"
             /\ k \in DOMAIN banned_offices'
             /\ banned_offices'[k] = f
             /\ k \notin offices'
             /\ \A l \in DOMAIN center_office' : l[2] # k
             /\ dec'[p].deletedLinks = dec'[p].removedLinks
             /\ dec'[p].deletedOffices = Cardinality(offices \ offices')]_vars

\* C7: a flag that is approved stays approved.
C7_ApprovedIsTerminal ==
  [][\A f \in FlagIds :
       office_deletion_flags[f].status = "approved"
       => office_deletion_flags'[f].status = "approved"]_vars

\* C8: the UPDATE of a rejection of a pending flag changes only the status
\* and reviewed_at of that flag; a rejection of a rejected flag answers
\* already_rejected, a decision on an unknown id answers not_found (404), and
\* both change no table.
C8_RejectFrame ==
  [][\A p \in Deciders :
       /\ (dec[p].pc = "rej_upd" /\ dec'[p].pc = "done"
           /\ office_deletion_flags[dec[p].flagId].status = "pending")
          => /\ office_deletion_flags' =
                  [office_deletion_flags EXCEPT
                     ![dec[p].flagId].status = "rejected",
                     ![dec[p].flagId].reviewed_at = clock]
             /\ UNCHANGED <<cancer_centers, offices, center_office,
                            banned_offices>>
             /\ dec'[p].outcome = "rejected" /\ dec'[p].http = 200
       /\ (dec[p].pc = "idle" /\ dec'[p].pc # "idle")
          => /\ (dec'[p].flagId \notin FlagIds)
                  => /\ dec'[p].pc = "done" /\ dec'[p].outcome = "not_found"
                     /\ dec'[p].http = 404 /\ UNCHANGED tables
             /\ (/\ dec'[p].flagId \in FlagIds /\ dec'[p].decision = "reject"
                 /\ office_deletion_flags[dec'[p].flagId].status = "rejected")
                  => /\ dec'[p].pc = "done"
                     /\ dec'[p].outcome = "already_rejected"
                     /\ UNCHANGED tables]_vars

\* a pending flag was rejected and a second rejection answered already_rejected
C8_Witness ==
  \E p, q \in Deciders :
    /\ dec[p].pc = "done" /\ dec[p].outcome = "rejected"
    /\ dec[q].pc = "done" /\ dec[q].outcome = "already_rejected"
    /\ dec[q].flagId = dec[p].flagId
    /\ office_deletion_flags[dec[p].flagId].status = "rejected"

\* the active centers with an id above the cursor c
ActiveAfter(c) ==
  {id \in DOMAIN cancer_centers : cancer_centers[id].is_active /\ id > c}

\* C9: a scheduled run that read cursor c with batch size N refreshes the
\* first N active centers with id > c in ascending order and then sets the
\* cursor to the last of them; when there is none, it refreshes nothing and
\* sets the cursor to 0.  With centers 1..25 all active and N = 10 the cursor
\* after the first, second, third and fourth run is 10, 20, 25 and 0.
C9_ScheduledPaging ==
  /\ [][\A r \in Refreshers :
          /\ (ref[r].pc = "s_set_cursor" /\ ref'[r].pc = "done")
             => LET v == ref[r].visited
                    A == ActiveAfter(ref[r].cursorStart)
                IN /\ A # {}
                   /\ Len(v) = Min(ref[r].batchSize, Cardinality(A))
                   /\ \A i \in 1..Len(v) : v[i] \in A
                   /\ \A i, j \in 1..Len(v) : i < j => v[i] < v[j]
                   /\ \A x \in SeqToSet(v), y \in A \ SeqToSet(v) : x < y
                   /\ center_cursor' = StringOf(v[Len(v)])
          /\ (ref[r].pc = "s_reset" /\ ref'[r].pc = "done")
             => /\ ref[r].visited = <<>>
                /\ ActiveAfter(ref[r].cursorStart) = {}
                /\ center_cursor' = StringOf(0)]_vars
  /\ [](Cardinality(DOMAIN cancer_centers) = 25
          => /\ \A r \in Refreshers :
                  ref[r].mode = "batch" => ref[r].batchSize = 10
             /\ (ref[1].pc = "done" /\ ref[1].budget < 4)
                  => center_cursor =
                       StringOf(<<10, 20, 25, 0>>[4 - ref[1].budget]))

\* the fourth run over the 25 centers has ended
C9_Witness ==
  /\ Cardinality(DOMAIN cancer_centers) = 25
  /\ ref[1].pc = "done" /\ ref[1].budget = 0 /\ ref[1].outcome = "reset"

\* C10: when a call of refreshCenterOffices for center C returns and no other
\* call for C was in progress with it, every link of C has last_seen equal to
\* the seen_at of the call, and is a link to an office the call observed,
\* matched and did not find banned.
C10_LinksSeenAtRefresh ==
  [][\A r \in Refreshers :
       (ref[r].pc = "rc_prune_stale" /\ ref'[r].pc # "rc_prune_stale"
        /\ ~ref[r].overlap)
       => \A l \in DOMAIN center_office' :
            l[1] = ref[r].center
            => /\ center_office'[l] = ref[r].seenAt
               /\ l[2] \in SeqToSet(ref[r].accepted)]_vars

\* a manual refresh returned, alone on its center, having pruned links the
\* run did not see and having left links
C10_Witness ==
  \E r \in Refreshers :
    /\ ref[r].pc = "done" /\ ref[r].mode = "center" /\ ref[r].outcome = "ok"
    /\ ~ref[r].overlap /\ ref[r].pruned > 0
    /\ LinksOfCenter(ref[r].target) # {}

\* the links of center c that carry the timestamp seenAt, after the step
LinksSeenAt(c, seenAt) ==
  {l \in DOMAIN center_office' : l[1] = c /\ center_office'[l] = seenAt}

\* C11 as stated: when a call of refreshCenterOffices for center C with
\* maxOffices = M returns, at most M links of C carry the seen_at of the call.
C11_CapAnyRun ==
  [][\A r \in Refreshers :
       (ref[r].pc = "rc_prune_stale" /\ ref'[r].pc # "rc_prune_stale"
        /\ ref[r].maxOffices > 0)
       => Cardinality(LinksSeenAt(ref[r].center, ref[r].seenAt))
            <= ref[r].maxOffices]_vars

\* C11, amended: when a call of refreshCenterOffices for center C with
\* maxOffices = M returns and no other call for C was in progress with it, at
\* most M links of C carry the seen_at of the call, whatever the upstream
\* answered.
C11_CapHoldsAlone ==
  [][\A r \in Refreshers :
       (ref[r].pc = "rc_prune_stale" /\ ref'[r].pc # "rc_prune_stale"
        /\ ref[r].maxOffices > 0 /\ ~ref[r].overlap)
       => Cardinality(LinksSeenAt(ref[r].center, ref[r].seenAt))
            <= ref[r].maxOffices]_vars

\* a manual refresh with maxOffices = 1 returned, alone on its center; the cap
\* had dropped an office of the answer and one link is left
C11_Witness ==
  \E r \in Refreshers :
    /\ ref[r].pc = "done" /\ ref[r].mode = "center" /\ ref[r].outcome = "ok"
    /\ ref[r].maxOffices = 1 /\ ref[r].cut /\ ~ref[r].overlap
    /\ Cardinality(LinksOfCenter(ref[r].target)) = 1

\* the score of the match of office k against the index of run r reaches
\* MIN_ACCEPT_SCORE
MatchedInIndexOf(r, k) ==
  LET match == matchOfficeToCompany(OfficeOf(k), ref[r].companyMatchIndex)
  IN match.found /\ match.score >= MIN_ACCEPT_SCORE

\* the offices rows and the links of center c a step inserts or updates
UpsertedKeys(c) ==
  {k \in OfficeKeys :
     \/ k \in offices' \ offices
     \/ /\ <<c, k>> \in DOMAIN center_office'
        /\ \/ <<c, k>> \notin DOMAIN center_office
           \/ center_office'[<<c, k>>] # center_office[<<c, k>>]}

\* C12: every office a refresh upserts matches a company of the index the
\* refresh loaded with a score of at least 0.86; the offices the run counts
\* as matched and as filtered out add up to the offices it fetched (after the
\* cap); with an index without variants the run upserts no office.
C12_OnlyMatchedUpserted ==
  [][\A r \in Refreshers :
       /\ (ref[r].pc = "rc_fetch" /\ ref'[r].pc \in {"rc_batch", "rc_prune_unseen"})
          => /\ ref'[r].matchedCount + ref'[r].filteredOutCount
                  = ref'[r].officesFetched
             /\ \A k \in SeqToSet(ref'[r].accepted) : MatchedInIndexOf(r, k)
             /\ ref[r].companyMatchIndex = <<>> => ref'[r].accepted = <<>>
       /\ (ref[r].pc = "rc_batch"
           /\ (ref'[r].pos # ref[r].pos \/ ref'[r].pc # "rc_batch"))
          => \A k \in UpsertedKeys(ref[r].center) : MatchedInIndexOf(r, k)]_vars

\* a refresh fetched two offices, matched one against the companies and
\* filtered the other out, and has upserted the matched one
C12_Witness ==
  \E r \in Refreshers :
    /\ ref[r].pc = "rc_enrich" /\ ref[r].officesFetched = 2
    /\ ref[r].matchedCount = 1 /\ ref[r].filteredOutCount = 1
    /\ Len(ref[r].accepted) = 1
    /\ <<ref[r].center, ref[r].accepted[1]>> \in DOMAIN center_office
    /\ center_office[<<ref[r].center, ref[r].accepted[1]>>] = ref[r].seenAt

\* the rows of two states of cancer_centers agree but for the sync token
SameCenters(left, right) ==
  /\ DOMAIN left = DOMAIN right
  /\ \A id \in DOMAIN left :
       [left[id] EXCEPT !.last_csv_sync_token = NoToken]
         = [right[id] EXCEPT !.last_csv_sync_token = NoToken]

\* C13: when a centers CSV upload with which no other centers upload was
\* interleaved returns, a center is active exactly if its center_code is
\* among the accepted rows of the file; each accepted row is a center with
\* is_active = 1 and the name of the row; every other center is as it was
\* before the upload, but inactive; no step deletes a center; and when the
\* file is the file of the upload that wrote the table last, the upload
\* disables no center and leaves the rows as they were.
C13_CentersFollowFile ==
  [][/\ DOMAIN cancer_centers \subseteq DOMAIN cancer_centers'
     /\ \A p \in Uploaders :
          (up[p].pc = "uc_disable" /\ up'[p].pc = "done" /\ ~up[p].overlap)
          => LET rows == up[p].rows
                 codes == {rows[i].centerCode : i \in 1..Len(rows)}
                 before == up[p].before
             IN /\ \A id \in DOMAIN cancer_centers' :
                     cancer_centers'[id].is_active
                       <=> cancer_centers'[id].center_code \in codes
                /\ \A i \in 1..Len(rows) :
                     \E id \in DOMAIN cancer_centers' :
                       /\ cancer_centers'[id].center_code = rows[i].centerCode
                       /\ cancer_centers'[id].name = rows[i].name
                       /\ cancer_centers'[id].is_active
                /\ \A id \in DOMAIN before :
                     before[id].center_code \notin codes
                     => cancer_centers'[id] = [before[id] EXCEPT !.is_active = FALSE]
                /\ up[p].repeat
                   => /\ up'[p].disabled = 0
                      /\ SameCenters(before, cancer_centers')]_vars

\* a file was uploaded twice, one upload after the other: the first inserted
\* a center, updated one and disabled one, the second has returned
C13_Witness ==
  \E p, q \in Uploaders :
    /\ p # q /\ up[p].kind = "centers" /\ up[q].kind = "centers"
    /\ up[q].pc = "done" /\ up[q].outcome = "http_200" /\ ~up[q].overlap
    /\ up[q].inserted > 0 /\ up[q].updated > 0 /\ up[q].disabled > 0
    /\ up[p].pc = "done" /\ up[p].outcome = "http_200" /\ ~up[p].overlap
    /\ up[p].repeat /\ up[p].file = up[q].file

CompaniesUnique(rows) ==
  \A i, j \in 1..Len(rows) :
    rows[i].company_name_normalized = rows[j].company_name_normalized => i = j

\* C14: no two rows of companies have the same company_name_normalized, in
\* any state; a step of an import leaves every row as it is and adds at most
\* one row, of a normalised name no row had; and an import of the file the
\* last import sent adds no row and counts every accepted row as skipped.
C14_CompaniesInsertOnly ==
  [][/\ CompaniesUnique(companies) /\ CompaniesUnique(companies')
     /\ Len(companies') \in {Len(companies), Len(companies) + 1}
     /\ SubSeq(companies', 1, Len(companies)) = companies
     /\ Len(companies') > Len(companies)
        => ~CompanyConflict(companies'[Len(companies')].company_name_normalized)
     /\ \A p \in Uploaders :
          (up[p].pc = "co_insert" /\ up'[p].pc = "done" /\ up[p].repeat
           /\ ~up[p].overlap)
          => /\ companies' = up[p].before
             /\ up'[p].inserted = 0
             /\ up'[p].skipped = Len(up[p].rows)]_vars

\* a companies file was imported twice, one import after the other: the first
\* inserted a row and skipped one, the second has returned
C14_Witness ==
  \E p, q \in Uploaders :
    /\ p # q /\ up[p].kind = "companies" /\ up[q].kind = "companies"
    /\ up[q].pc = "done" /\ up[q].outcome = "http_200"
    /\ up[q].inserted > 0 /\ up[q].skipped > 0
    /\ up[p].pc = "done" /\ up[p].outcome = "http_200" /\ up[p].repeat
    /\ up[p].file = up[q].file /\ Len(up[p].rows) = 2

\* the header is `Bearer <token>` with the token the deployment configures
CredentialsValid(authorization, configuredToken) ==
  /\ configuredToken # <<>>
  /\ StartsWith(authorization, BearerPrefix)
  /\ sanitizeText(SubSeq(authorization, Len(BearerPrefix) + 1, Len(authorization)))
       = configuredToken

\* what the database stores
StoredData == <<tables, center_cursor, companies>>

\* C15: a request to an admin route (decision, refresh-center, refresh-batch,
\* refresh-all, the two CSV uploads, the flag list, status) whose
\* Authorization header is absent, is not `Bearer <token>`, carries another
\* token, or that arrives when no ADMIN_TOKEN is configured, is answered 401
\* by its first step and that step leaves the database as it is.
C15_UnauthorizedRejected ==
  [][/\ \A p \in Deciders :
          (dec[p].pc = "idle" /\ dec'[p].pc # "idle"
           /\ ~CredentialsValid(dec'[p].authorization, env.ADMIN_TOKEN))
          => dec'[p].pc = "done" /\ dec'[p].http = 401 /\ UNCHANGED StoredData
     /\ \A r \in Refreshers :
          (ref'[r].budget < ref[r].budget
           /\ ref'[r].authorization # CronTrigger
           /\ ~CredentialsValid(ref'[r].authorization, env.ADMIN_TOKEN))
          => /\ ref'[r].pc = "done" /\ ref'[r].outcome = "http_401"
             /\ UNCHANGED StoredData
     /\ \A p \in Uploaders :
          (up'[p].budget < up[p].budget
           /\ ~CredentialsValid(up'[p].authorization, env.ADMIN_TOKEN))
          => /\ up'[p].pc = "done" /\ up'[p].outcome = "http_401"
             /\ UNCHANGED StoredData
     /\ (adm'.budget < adm.budget
         /\ ~CredentialsValid(adm'.authorization, env.ADMIN_TOKEN))
        => adm'.pc = "done" /\ adm'.http = 401 /\ UNCHANGED StoredData]_vars

\* a refresh-all request with a token of the right length but another value
\* was answered 401
C15_Witness ==
  \E r \in Refreshers :
    /\ ref[r].pc = "done" /\ ref[r].mode = "all" /\ ref[r].outcome = "http_401"
    /\ env.ADMIN_TOKEN = SecretToken
    /\ ref[r].authorization = BearerPrefix \o <<"s", "2">>

\* the attempts made for the i-th center of a run ended with a success
Returned(rec, i) ==
  rec.tries[i] # <<>> /\ rec.tries[i][Len(rec.tries[i])] = "returned"

\* the loop is done with the i-th center of a run
Settled(rec, i) == i < Len(rec.tries) \/ rec.center = 0

\* a refresh-all run that passed the checks of its request
SweepRuns ==
  {r \in Refreshers : ref[r].mode = "all" /\ ref[r].attemptsAllowed > 0}

\* C16: in a refresh-all run no center is visited twice, a center gets at most
\* centerRetryCount + 1 calls of refreshCenterOffices, no call follows one
\* that returned, centersSucceeded counts the centers whose last call
\* returned and centersFailed the centers all of whose calls threw; when the
\* run is over centersAttempted = centersSucceeded + centersFailed and the
\* response says ok exactly when centersFailed = 0.
C16_RetriesAndCounts ==
  \A r \in SweepRuns :
    LET rec == ref[r]
        all == 1..Len(rec.tries)
    IN /\ Len(rec.tries) = Len(rec.visited)
       /\ rec.attempted = Len(rec.visited)
       /\ \A i, j \in all : i < j => rec.visited[i] < rec.visited[j]
       /\ \A i \in all :
            /\ Len(rec.tries[i]) <= rec.attemptsAllowed
            /\ \A j \in 1..(Len(rec.tries[i]) - 1) :
                 rec.tries[i][j] = "raised"
       /\ rec.succeeded = Cardinality({i \in all : Returned(rec, i)})
       /\ rec.failed =
            Cardinality({i \in all : Settled(rec, i) /\ ~Returned(rec, i)})
       /\ \A i \in all :
            Settled(rec, i) /\ ~Returned(rec, i)
            => \A j \in 1..Len(rec.tries[i]) : rec.tries[i][j] = "raised"
       /\ rec.pc = "done"
          => /\ rec.attempted = rec.succeeded + rec.failed
             /\ rec.outcome \in {"ok", "failed"}
             /\ rec.outcome = "ok" <=> rec.failed = 0

\* a refresh-all run with one retry is over: one center succeeded at its
\* second attempt, another failed twice, and the response says not ok
C16_Witness ==
  \E r \in SweepRuns :
    /\ ref[r].pc = "done" /\ ref[r].attemptsAllowed = 2
    /\ ref[r].outcome = "failed"
    /\ \E i, j \in 1..Len(ref[r].tries) :
         /\ ref[r].tries[i] = <<"raised", "returned">>
         /\ ref[r].tries[j] = <<"raised", "raised">>

\* a scheduled run that found centers to refresh
BatchRuns ==
  {r \in Refreshers : ref[r].mode = "batch" /\ ref[r].centers # <<>>}

\* the calls a scheduled run has made: one per center, in the order of the
\* batch, whatever the earlier calls did; past the loop, one for every center
BatchCalls(r) ==
  LET rec == ref[r]
  IN /\ Len(rec.visited) <= Len(rec.centers)
     /\ Len(rec.tries) = Len(rec.visited)
     /\ \A i \in 1..Len(rec.visited) :
          /\ rec.visited[i] = rec.centers[i]
          /\ IF Settled(rec, i) THEN Len(rec.tries[i]) = 1
                                ELSE rec.tries[i] = <<>>
     /\ rec.pc \in {"s_set_cursor", "done"}
        => Len(rec.visited) = Len(rec.centers) /\ rec.center = 0
     /\ rec.pc = "done" => rec.outcome = "ok"

\* C17: in a scheduled run every center of the batch gets its call of
\* refreshCenterOffices, also after a call for an earlier center threw; the
\* run ends without raising, and its last step writes the id of the last
\* center of the batch to the cursor.
C17_BatchSurvivesThrow ==
  [][\A r \in Refreshers :
       /\ (ref'[r].mode = "batch" /\ ref'[r].centers # <<>>) => BatchCalls(r)'
       /\ (ref[r].mode = "batch" /\ ref[r].centers # <<>>
           /\ ref[r].pc # "done" /\ ref'[r].pc = "done")
          => center_cursor' =
               setRefreshCursor(ref[r].centers[Len(ref[r].centers)])]_vars

\* a scheduled run is over: the call for its first center threw, the call
\* for its second center returned
C17_Witness ==
  \E r \in BatchRuns :
    /\ ref[r].pc = "done" /\ ref[r].outcome = "ok"
    /\ Len(ref[r].tries) >= 2
    /\ ref[r].tries[1] = <<"raised">> /\ ref[r].tries[2] = <<"returned">>

\* C18: GET /api/centers/{id}/offices of an existing center with a limit
\* that is a number: 0 or a negative number is answered 400; a number in
\* 1..5000 is the LIMIT of the query; a number above 5000 gives LIMIT 5000.
C18_LimitContract ==
  LET requestedLimit == parseInt(TrimLeft(rd.limitRaw))
  IN (rd.pc \in {"list", "done"} /\ rd.http # 404
      /\ sanitizeText(rd.limitRaw) # <<>> /\ ~requestedLimit.nan)
     => /\ requestedLimit.value <= 0 => rd.http = 400
        /\ requestedLimit.value \in 1..MaxReadLimit
           => rd.http # 400 /\ rd.limit = requestedLimit.value
        /\ requestedLimit.value > MaxReadLimit
           => rd.http # 400 /\ rd.limit = MaxReadLimit

\* the step of refresh r is a db.batch call of upsertOfficesAndLinks that
\* throws
UpsertThrows(r) ==
  /\ ref[r].pc = "rc_batch"
  /\ ref'[r].pc \notin {"rc_batch", "rc_enrich"}
  /\ ref'[r].lastError = "foreign_key"

\* C19: when upsertOfficesAndLinks throws, no offices row the call inserted
\* and no center_office row the call inserted or updated is left in the
\* database, however many chunks the call had committed before.
C19_UpsertAllOrNothing ==
  [][\A r \in Refreshers :
       UpsertThrows(r)
       => /\ ref[r].written \cap offices' = {}
          /\ \A l \in ref[r].linked :
               l \in DOMAIN center_office' => center_office'[l] # ref[r].seenAt]_vars

\* C20: every Office the normaliser produced has lowConfidence true when its
\* website, wikidata, brand and operator are all null, and false when one of
\* them is not null.
C20_LowConfidenceRule ==
  nrm.pc = "done"
  => \A i \in 1..Len(nrm.offices) :
       LET office == nrm.offices[i]
       IN office.lowConfidence
          <=> (office.website = <<>> /\ office.wikidata = <<>>
               /\ office.brand = <<>> /\ office.operator = <<>>)

\* the centers upload p begins with this step, with valid credentials and a
\* multipart request that carries the file
CentersUploadBegins(p) ==
  /\ up'[p].budget < up[p].budget /\ up'[p].kind = "centers"
  /\ up'[p].outcome # "http_401"
  /\ up'[p].file.form = "file"

\* the lines of the file that are acceptable rows
AcceptableLines(file) ==
  {i \in 1..Len(file.lines) : CenterLineAccepted(file.lines[i])}

\* C21: a centers upload whose file has an unterminated quote, lacks a
\* required header or has no acceptable line is answered 400 by its first
\* step, which leaves cancer_centers as it is; an upload whose file has an
\* acceptable line goes on, each of its steps writes one accepted row (the
\* center of that code is active and has the name of the row), and it is
\* answered 200 with one issue per rejected line.
C21_UploadAllOrRejected ==
  [][\A p \in Uploaders :
       /\ CentersUploadBegins(p)
          => LET file == up'[p].file
             IN IF \/ UnterminatedQuote(file) \/ ~file.header
                   \/ AcceptableLines(file) = {}
                  THEN /\ up'[p].pc = "done" /\ up'[p].outcome = "http_400"
                       /\ cancer_centers' = cancer_centers
                  ELSE /\ up'[p].pc = "uc_select" /\ up'[p].rows # <<>>
                       /\ up'[p].issues =
                            Len(file.lines) - Cardinality(AcceptableLines(file))
       /\ (up[p].pc = "uc_upsert" /\ up'[p].i = up[p].i + 1)
          => LET row == up[p].rows[up[p].i]
             IN \E id \in DOMAIN cancer_centers' :
                  /\ cancer_centers'[id].center_code = row.centerCode
                  /\ cancer_centers'[id].name = row.name
                  /\ cancer_centers'[id].is_active
       /\ (up[p].pc = "uc_disable" /\ up'[p].pc = "done")
          => /\ up'[p].outcome = "http_200"
             /\ up'[p].inserted + up'[p].updated = Len(up'[p].rows)
             /\ up'[p].issues = Len(up'[p].file.lines)
                                  - Cardinality(AcceptableLines(up'[p].file))]_vars

\* an upload whose file ends in an unterminated quote was answered 400, and
\* an upload with a rejected line next to accepted ones was answered 200
C21_Witness ==
  \E p, q \in Uploaders :
    /\ up[p].pc = "done" /\ up[p].kind = "centers" /\ up[p].outcome = "http_400"
    /\ up[p].file.tail # <<>>
    /\ AcceptableLines(up[p].file) # {}
    /\ up[q].pc = "done" /\ up[q].kind = "centers" /\ up[q].outcome = "http_200"
    /\ up[q].issues > 0

\* ---------------------------------------------------------- specifications
\* an end of enrichOfficesWithWikidata (refresh.ts 141-212): it raised, or it
\* returned entitiesFetched and officesUpdated
Enrichment(raised, entitiesFetched, officesUpdated) ==
  [raised |-> raised, entitiesFetched |-> entitiesFetched,
   officesUpdated |-> officesUpdated]

\* the tables once refreshes have linked the offices offs to every center
\* requests of an administrator who sends no parameter, and the cron trigger
QuietLoad ==
  [maxOffices |-> {<<>>}, authorization |-> {ValidHeader},
   batchTriggers |-> {CronTrigger}, centerFiles |-> {}, companyFiles |-> {},
   flagStatuses |-> {}, limits |-> {<<>>}, shifts |-> {0},
   enrichments |-> {Enrichment(FALSE, 0, 0)}]

Environment(batchCentersPerRun, adminToken) ==
  [BATCH_CENTERS_PER_RUN |-> batchCentersPerRun, ADMIN_TOKEN |-> adminToken]

CompanyRow(name, aliases) ==
  [company_name |-> name, company_name_normalized |-> normalizeCompanyName(name),
   known_aliases |-> aliases]

\* companies under which every office of the model has a match
KnownCompanies ==
  <<CompanyRow(<<"a", "c", "m", "e", " ", "i", "n", "c">>, <<>>),
    CompanyRow(<<"b", "o", "l", "t">>, <<>>)>>

\* lat/lon and distance_m as the refreshes that linked offs to the centers
\* wrote them
GeoOf(centers, offs) ==
  [office |-> [k \in offs |-> OfficePlace(k)],
   distance |-> [l \in (DOMAIN centers) \X offs |->
                   Distance(centers[l[1]].place, OfficePlace(l[2]))]]

TablesFor(centers, offs, environment, ld, companyRows) ==
  /\ load = ld
  /\ companies = companyRows
  /\ cancer_centers = centers
  /\ offices = offs
  /\ center_office = [l \in (DOMAIN centers) \X offs |-> 1]
  /\ office_deletion_flags = <<>>
  /\ banned_offices = <<>>
  /\ clock = 1
  /\ center_cursor = <<>>
  /\ overpass = offs
  /\ env = environment
  /\ nrm = [NrmIdle EXCEPT !.pc = "off"]
  /\ geo = GeoOf(centers, offs)
  /\ ovp = [OvpIdle EXCEPT !.pc = "off"]

TablesWith(centers, offs, batchCentersPerRun, ld, companyRows) ==
  TablesFor(centers, offs, Environment(batchCentersPerRun, SecretToken), ld,
            companyRows)

TablesUnder(centers, offs, batchCentersPerRun, ld) ==
  TablesWith(centers, offs, batchCentersPerRun, ld, KnownCompanies)

Tables(centers, offs, batchCentersPerRun) ==
  TablesUnder(centers, offs, batchCentersPerRun, QuietLoad)

\* a center the upload that created it named c<id>
CenterRow(id, active) ==
  [is_active |-> active, center_code |-> <<"c">> \o StringOf(id),
   name |-> <<"n">>, place |-> CenterPlace(id),
   last_csv_sync_token |-> NoToken]

ActiveCenters(n) == [c \in 1..n |-> CenterRow(c, TRUE)]

\* the flag workflow and the read endpoint
Init ==
  /\ Tables(ActiveCenters(NumCenters), OfficeKeys, <<>>)
  /\ sub = [p \in Submitters |-> SubIdle]
  /\ dec = [p \in Deciders |-> DecIdle]
  /\ ref = [r \in Refreshers |-> RefIdle(0, {})]
  /\ rd = RdIdle
  /\ up = [p \in Uploaders |-> UpIdle(0, {})]
  /\ adm = AdmIdle(0)

Next == SubmitNext \/ DecideNext \/ ReadNext

Spec == Init /\ [][Next]_vars

\* the requests that may be made: one flag submission and one decision or
\* none, and per refresh slot the kinds of run and their number
Requests(decisions, kinds, budget) ==
  /\ sub = [p \in Submitters |-> IF p = 1 /\ decisions THEN SubIdle
                                 ELSE [SubIdle EXCEPT !.pc = "off"]]
  /\ dec = [p \in Deciders |-> IF p = 1 /\ decisions THEN DecIdle
                               ELSE [DecIdle EXCEPT !.pc = "off"]]
  /\ ref = [r \in Refreshers |-> IF r <= Len(kinds)
                                   THEN RefIdle(budget[r], kinds[r])
                                 ELSE RefIdle(0, {})]
  /\ rd = [RdIdle EXCEPT !.pc = "off"]
  /\ up = [p \in Uploaders |-> UpIdle(0, {})]
  /\ adm = AdmIdle(0)

\* two manual refreshes, in flight together or one after the other
InitTwoManual ==
  /\ Tables(ActiveCenters(NumCenters), OfficeKeys, <<>>)
  /\ Requests(FALSE, <<{"center"}, {"center"}>>, <<1, 1>>)

\* a manual refresh next to a flag submission and a decision
InitDecision ==
  /\ Tables(ActiveCenters(NumCenters), OfficeKeys, <<>>)
  /\ Requests(TRUE, <<{"center"}, {}>>, <<1, 0>>)

\* a refresh-all run, with or without the purge, next to a manual refresh
InitPurge ==
  /\ Tables(ActiveCenters(1), OfficeKeys, <<>>)
  /\ Requests(FALSE, <<{"all"}, {"center"}>>, <<1, 1>>)

\* a refresh-all run over two centers
InitSweep ==
  /\ Tables(ActiveCenters(2), OfficeKeys, <<>>)
  /\ Requests(FALSE, <<{"all"}, {}>>, <<1, 0>>)

\* a manual refresh that finds an office the tables do not hold yet, next to
\* a flag submission and a decision
InitChunks ==
  /\ \E offs \in SUBSET OfficeKeys :
       /\ offs \notin {{}, OfficeKeys}
       /\ load = QuietLoad
       /\ companies = KnownCompanies
       /\ cancer_centers = ActiveCenters(1)
       /\ offices = offs
       /\ center_office = [l \in {1} \X offs |-> 1]
       /\ office_deletion_flags = <<>>
       /\ banned_offices = <<>>
       /\ clock = 1
       /\ center_cursor = <<>>
       /\ overpass = OfficeKeys
       /\ env = Environment(<<>>, SecretToken)
       /\ nrm = [NrmIdle EXCEPT !.pc = "off"]
       /\ geo = GeoOf(ActiveCenters(1), offs)
       /\ ovp = [OvpIdle EXCEPT !.pc = "off"]
  /\ Requests(TRUE, <<{"center"}, {}>>, <<1, 0>>)

\* values of the BATCH_CENTERS_PER_RUN variable: unset, numbers, not numbers
BatchEnvValues ==
  {<<>>, <<"1">>, <<"2">>, <<"0">>, <<"-", "1">>, <<"2", "x">>, <<"x">>}

\* scheduled batches, one after the other, over centers of which any may be
\* inactive
InitBatches ==
  /\ \E active \in [1..NumSchedCenters -> BOOLEAN], e \in BatchEnvValues :
       Tables([c \in 1..NumSchedCenters |-> CenterRow(c, active[c])], OfficeKeys, e)
  /\ Requests(FALSE, <<{"batch"}, {}>>, <<NumRuns, 0>>)

\* 25 active centers and a batch size of 10, set or by default; the upstream
\* knows no office
InitScenario ==
  /\ \E e \in {<<>>, <<"1", "0">>} : Tables(ActiveCenters(25), {}, e)
  /\ Requests(FALSE, <<{"batch"}, {}>>, <<4, 0>>)

\* values of the maxOffices parameter: blank, numbers, not a positive number
MaxOfficesValues == {<<>>, <<"1">>, <<"0">>}

\* two manual refreshes of one center, each with or without a cap
InitCap ==
  /\ TablesUnder(ActiveCenters(1), OfficeKeys, <<>>,
                 [QuietLoad EXCEPT !.maxOffices = MaxOfficesValues])
  /\ Requests(FALSE, <<{"center"}, {"center"}>>, <<1, 1>>)

\* companies tables: none, companies one office or both match, companies that
\* come close to a name only, a company whose name is noise words
CompanyTables ==
  {<<>>,
   KnownCompanies,
   <<CompanyRow(<<"a", "c", "m", "e", " ", "i", "n", "c">>, <<>>)>>,
   <<CompanyRow(<<"c", "o", "l", "t">>, << <<"b", "o", "l", "t">> >>)>>,
   <<CompanyRow(<<"a", "c", "m", " ", "l", "a", "b", "s">>, << <<"a", "b">> >>)>>,
   <<CompanyRow(<<"t", "h", "e", " ", "c", "o">>, <<>>)>>}

\* a manual refresh or a scheduled batch under each of the companies tables
InitMatch ==
  /\ \E companyRows \in CompanyTables :
       TablesWith(ActiveCenters(1), OfficeKeys, <<>>, QuietLoad, companyRows)
  /\ Requests(FALSE, <<{"center", "batch"}, {}>>, <<1, 0>>)

NextRefresh ==
  SubmitNext \/ DecideNext \/ ManualNext \/ RcNext \/ SchedNext \/ AllNext

InitRefresh ==
  \/ InitTwoManual \/ InitDecision \/ InitPurge \/ InitBatches \/ InitScenario
  \/ InitCap \/ InitMatch \/ InitSweep \/ InitChunks

SpecRefresh == InitRefresh /\ [][NextRefresh]_vars

\* ---- the normaliser over elements of every kind
\* values of the tags: absent, blank, text; for wikidata also Q-ids, in upper
\* and lower case, and texts that hold no Q-id
TagValues ==
  [name |-> {<<>>, <<" ">>, <<"n">>, <<"N", " ">>},
   website |-> {<<>>, <<"w">>},
   wikidata |-> {<<>>, <<"Q", "7">>, <<"q", "7", "0">>, <<"y", "e", "s">>,
                 <<"Q", "0">>},
   brand |-> {<<>>, <<"b">>},
   operator |-> {<<>>, <<" ">>, <<"o">>}]

Element(type, id, coords, name, website, wikidata, brand, operator) ==
  [type |-> type, id |-> id, coords |-> coords,
   tags |-> [name |-> name, website |-> website, wikidata |-> wikidata,
             brand |-> brand, operator |-> operator]]

Elements ==
  {Element(type, 1, coords, name, website, wikidata, brand, operator) :
     type \in {"node", "area"}, coords \in 0..1, name \in TagValues.name,
     website \in TagValues.website, wikidata \in TagValues.wikidata,
     brand \in TagValues.brand, operator \in TagValues.operator}

\* a second element at the place and under the name of the first: one with a
\* brand only, one with a website and a wikidata tag
Seconds ==
  {Element("way", 2, 1, <<"n">>, <<>>, <<>>, <<"b">>, <<>>),
   Element("way", 2, 1, <<"n">>, <<"w">>, <<"Q", "7">>, <<>>, <<>>)}

ElementLists ==
  {<<element>> : element \in Elements}
  \cup {<<element, second>> : element \in Elements, second \in Seconds}

InitNormalize ==
  /\ load = QuietLoad
  /\ companies = KnownCompanies
  /\ cancer_centers = ActiveCenters(1)
  /\ offices = {}
  /\ center_office = <<>>
  /\ office_deletion_flags = <<>>
  /\ banned_offices = <<>>
  /\ clock = 1
  /\ center_cursor = <<>>
  /\ overpass = {}
  /\ env = Environment(<<>>, SecretToken)
  /\ geo = GeoOf(ActiveCenters(1), {})
  /\ ovp = [OvpIdle EXCEPT !.pc = "off"]
  /\ Requests(FALSE, <<{}, {}>>, <<0, 0>>)
  /\ \E elements \in ElementLists : nrm = [NrmIdle EXCEPT !.elements = elements]

SpecNormalize == InitNormalize /\ [][Normalize]_vars

\* ---- the read endpoint under every kind of limit
\* values of the limit parameter: absent, blank, numbers in and out of
\* 1..5000, not numbers
ReadLimits ==
  {<<>>, <<" ">>, <<"0">>, <<"-", "1">>, <<"1">>, <<"2">>, <<" ", "2">>,
   <<"3", "x">>, <<"x">>, StringOf(MaxReadLimit), StringOf(MaxReadLimit + 1)}

InitRead ==
  /\ \E offs \in SUBSET OfficeKeys :
       TablesUnder(ActiveCenters(NumCenters), offs, <<>>,
                   [QuietLoad EXCEPT !.limits = ReadLimits])
  /\ sub = [p \in Submitters |-> [SubIdle EXCEPT !.pc = "off"]]
  /\ dec = [p \in Deciders |-> [DecIdle EXCEPT !.pc = "off"]]
  /\ ref = [r \in Refreshers |-> RefIdle(0, {})]
  /\ rd = RdIdle
  /\ up = [p \in Uploaders |-> UpIdle(0, {})]
  /\ adm = AdmIdle(0)

SpecRead == InitRead /\ [][ReadNext]_vars
\* ---- the CSV uploads
\* the uploads that may be made: per slot the kinds of upload and their number
Uploads(kinds, budget) ==
  /\ sub = [p \in Submitters |-> [SubIdle EXCEPT !.pc = "off"]]
  /\ dec = [p \in Deciders |-> [DecIdle EXCEPT !.pc = "off"]]
  /\ ref = [r \in Refreshers |-> RefIdle(0, {})]
  /\ rd = [RdIdle EXCEPT !.pc = "off"]
  /\ up = [p \in Uploaders |-> IF p <= Len(kinds) THEN UpIdle(budget[p], kinds[p])
                              ELSE UpIdle(0, {})]
  /\ adm = AdmIdle(0)

CsvFile(form, header, lines) ==
  [form |-> form, header |-> header, lines |-> lines, tail |-> <<>>]

\* a line whose lat/lon, when acceptable, are the place 0
CenterLine(code, name, placeOk) ==
  [center_code |-> code, name |-> name, placeOk |-> placeOk, place |-> 0]

CompanyLine(name, aliases) == [company_name |-> name, known_aliases |-> aliases]

\* centers files: a center of the table and a new one; a new name for a
\* center; a center twice next to a line with a bad code; the inactive
\* center; lines that are all rejected; no header; not a file
CenterFiles ==
  {CsvFile("file", TRUE, <<CenterLine(<<"c", "1">>, <<"n">>, TRUE),
                           CenterLine(<<" ", "c", "4">>, <<"n">>, TRUE)>>),
   CsvFile("file", TRUE, <<CenterLine(<<"c", "2">>, <<"m">>, TRUE)>>),
   CsvFile("file", TRUE, <<CenterLine(<<"c", "1">>, <<"n">>, TRUE),
                           CenterLine(<<"c", "!">>, <<"n">>, TRUE),
                           CenterLine(<<"c", "1">>, <<"m">>, TRUE)>>),
   CsvFile("file", TRUE, <<CenterLine(<<"c", "3">>, <<"n">>, TRUE)>>),
   CsvFile("file", TRUE, <<CenterLine(<<>>, <<"n">>, TRUE),
                           CenterLine(<<"c", "2">>, <<" ">>, TRUE),
                           CenterLine(<<"c", "2">>, <<"n">>, FALSE)>>),
   CsvFile("file", FALSE, <<>>),
   [CsvFile("file", TRUE, <<CenterLine(<<"c", "1">>, <<"n">>, TRUE)>>)
      EXCEPT !.tail = <<"\"", "x", "\"", "\"">>],
   [CsvFile("file", TRUE, <<CenterLine(<<"c", "1">>, <<"n">>, TRUE)>>)
      EXCEPT !.tail = <<"\"", "\"">>],
   CsvFile("not_multipart", TRUE, <<>>),
   CsvFile("no_file", TRUE, <<>>)}

\* companies files: a company of the table and a new one; one name written
\* in two ways, with aliases; a line without a name; no header
CompanyFiles ==
  {CsvFile("file", TRUE, <<CompanyLine(<<"B", "o", "l", "t">>, <<>>),
                           CompanyLine(<<"c", "o", "l", "t">>, <<>>)>>),
   CsvFile("file", TRUE, <<CompanyLine(<<"A", "b", " ", " ", "C", "d">>,
                                       << <<"a", "b", " ", "c", "d">>, <<"a", "b">> >>),
                           CompanyLine(<<"a", "b", " ", "c", "d", " ">>, <<>>)>>),
   CsvFile("file", TRUE, <<CompanyLine(<<" ">>, <<>>)>>),
   CsvFile("file", FALSE, <<>>)}

\* two centers uploads over two active centers and an inactive one
InitCentersCsv ==
  /\ TablesWith([c \in 1..3 |-> CenterRow(c, c # 3)], {}, <<>>,
                [QuietLoad EXCEPT !.centerFiles = CenterFiles], KnownCompanies)
  /\ Uploads(<<{"centers"}, {"centers"}>>, <<1, 1>>)

\* two companies imports
InitCompaniesCsv ==
  /\ TablesWith(ActiveCenters(1), {}, <<>>,
                [QuietLoad EXCEPT !.companyFiles = CompanyFiles], KnownCompanies)
  /\ Uploads(<<{"companies"}, {"companies"}>>, <<1, 1>>)

InitCsv == InitCentersCsv \/ InitCompaniesCsv

NextCsv == UploadNext

SpecCsv == InitCsv /\ [][NextCsv]_vars
\* ---- the admin routes under every kind of credentials
\* the processes that may run
Processes(decisions, refKinds, refBudget, upKinds, upBudget, admBudget) ==
  /\ sub = [p \in Submitters |-> IF p = 1 /\ decisions THEN SubIdle
                                 ELSE [SubIdle EXCEPT !.pc = "off"]]
  /\ dec = [p \in Deciders |-> IF p = 1 /\ decisions THEN DecIdle
                               ELSE [DecIdle EXCEPT !.pc = "off"]]
  /\ ref = [r \in Refreshers |-> IF r = 1 THEN RefIdle(refBudget, refKinds)
                                 ELSE RefIdle(0, {})]
  /\ rd = [RdIdle EXCEPT !.pc = "off"]
  /\ up = [p \in Uploaders |-> IF p = 1 THEN UpIdle(upBudget, upKinds)
                               ELSE UpIdle(0, {})]
  /\ adm = AdmIdle(admBudget)

\* Authorization headers: none, the token, the token between blanks, a token
\* of the same length, a shorter one, another scheme, no token, no scheme
AuthHeaders ==
  {<<>>,
   ValidHeader,
   BearerPrefix \o <<" ">> \o SecretToken \o <<" ">>,
   BearerPrefix \o <<"s", "2">>,
   BearerPrefix \o <<"s">>,
   <<"b", "e", "a", "r", "e", "r", " ">> \o SecretToken,
   BearerPrefix,
   SecretToken}

\* ADMIN_TOKEN: set, not set
AdminTokens == {SecretToken, <<>>}

AuthLoad ==
  [QuietLoad EXCEPT
     !.authorization = AuthHeaders,
     !.batchTriggers = AuthHeaders \cup {CronTrigger},
     !.centerFiles = {CsvFile("file", TRUE,
                              <<CenterLine(<<"c", "2">>, <<"n">>, TRUE)>>)},
     !.companyFiles = {CsvFile("file", TRUE,
                               <<CompanyLine(<<"c", "o", "l", "t">>, <<>>)>>)},
     !.flagStatuses = {"pending", "all", "open"}]

AuthTables ==
  \E adminToken \in AdminTokens :
    TablesFor(ActiveCenters(1), OfficeKeys, Environment(<<>>, adminToken),
              AuthLoad, KnownCompanies)

InitAuth ==
  /\ AuthTables
  /\ \/ Processes(TRUE, {}, 0, {}, 0, 1)
     \/ Processes(FALSE, {"center"}, 1, {}, 0, 0)
     \/ Processes(FALSE, {"batch"}, 2, {}, 0, 0)
     \/ Processes(FALSE, {"all"}, 1, {}, 0, 0)
     \/ Processes(FALSE, {}, 0, {"centers", "companies"}, 1, 0)

NextAuth ==
  \/ SubmitNext \/ DecideNext \/ ManualNext \/ RcNext \/ SchedNext \/ AllNext
  \/ UploadNext \/ AdminNext

SpecAuth == InitAuth /\ [][NextAuth]_vars
\* ---- a refresh-all run alone
ActiveIds == {id \in DOMAIN cancer_centers : cancer_centers[id].is_active}

StrictlyAscending(q) == \A i, j \in 1..Len(q) : i < j => q[i] < q[j]

\* no run is in progress and none may start
AllRunsOver ==
  \A r \in Refreshers : ref[r].pc \in {"idle", "done"} /\ ref[r].budget = 0

\* C29: run_refresh_all terminates; it attempts each active center once, in
\* ascending id order, and no inactive center; its page cursor starts at 0
\* and strictly increases; the stored cursor is written at the end of each
\* page; the last stored cursor is the largest active center id
C29_RefreshAllSweeps ==
  /\ [][\A r \in Refreshers :
          ref[r].mode = "all" /\ ref'[r].mode = "all" /\ ref[r].pc # "done"
          => /\ StrictlyAscending(ref'[r].visited)
             /\ SeqToSet(ref'[r].visited) \subseteq ActiveIds
             /\ ref[r].pc = "a_load" => ref[r].cursor = 0
             /\ ref'[r].cursor # ref[r].cursor
                  => /\ ref'[r].cursor > ref[r].cursor
                     /\ ref[r].pc = "a_set_cursor"
             /\ ref[r].pc = "a_set_cursor"
                  => /\ ref[r].idx = Len(ref[r].centers)
                     /\ ref'[r].cursor = ref[r].centers[Len(ref[r].centers)]
                     /\ center_cursor' = StringOf(ref'[r].cursor)
             /\ center_cursor' # center_cursor
                  => ref[r].pc \in {"a_set_cursor", "p_cursor"}
             /\ ref'[r].pc = "done" /\ ref'[r].outcome \in {"ok", "failed"}
                  => /\ SeqToSet(ref'[r].visited) = ActiveIds
                     /\ ref'[r].attempted = Cardinality(ActiveIds)
                     /\ ActiveIds # {} =>
                          /\ getRefreshCursor' \in ActiveIds
                          /\ \A id \in ActiveIds : id <= getRefreshCursor']_vars
  /\ <>[]AllRunsOver

\* a run over active and inactive centers, in more than one page, ended
C29_Witness ==
  \E r \in Refreshers :
    /\ ref[r].mode = "all" /\ ref[r].pc = "done"
    /\ ref[r].outcome \in {"ok", "failed"}
    /\ Len(ref[r].visited) > ref[r].batchSize
    /\ ActiveIds # DOMAIN cancer_centers

\* three centers, each active or not; one company; one refresh-all run
InitAll ==
  /\ \E active \in [1..NumSchedCenters -> BOOLEAN] :
       TablesWith([c \in 1..NumSchedCenters |-> CenterRow(c, active[c])],
                  OfficeKeys, <<>>, QuietLoad,
                  <<CompanyRow(<<"b", "o", "l", "t">>, <<>>)>>)
  /\ Requests(FALSE, <<{"all"}, {}>>, <<1, 0>>)

NextAll ==
  \/ \E r \in Refreshers, fullClean \in BOOLEAN, optBatch \in AllBatchOptions,
        retryCount \in 0..(MaxAttempts - 1), maxOfficesRaw \in load.maxOffices,
        authorization \in load.authorization :
       AllStart(r, fullClean, optBatch, retryCount, maxOfficesRaw, authorization)
  \/ \E r \in Refreshers : PurgeLinks(r)
  \/ \E r \in Refreshers : PurgeOffices(r)
  \/ \E r \in Refreshers : PurgeCursor(r)
  \/ \E r \in Refreshers : AllLoad(r)
  \/ \E r \in Refreshers : AllList(r)
  \/ \E r \in Refreshers : AllSetCursor(r)
  \/ \E r \in Refreshers : RcFetch(r)
  \/ \E r \in Refreshers : RcBatch(r)
  \/ \E r \in Refreshers : RcEnrich(r)
  \/ \E r \in Refreshers : RcPruneUnseen(r)
  \/ \E r \in Refreshers : RcPruneStale(r)

\* the run goes on after each await: a step that can be taken is taken
SpecAll == InitAll /\ [][NextAll]_vars /\ WF_vars(NextAll)

\* ---- the approval next to other requests
\* C28: an approval is atomic for the other requests: no state another request
\* may read shows a flag approved whose office is not banned, or whose office
\* is banned while its offices row or links still exist
C28_ApprovalAtomic ==
  \A id \in DOMAIN office_deletion_flags :
    LET k == office_deletion_flags[id].osm
    IN office_deletion_flags[id].status = "approved"
         => /\ k \in DOMAIN banned_offices
            /\ k \notin offices
            /\ LinksOfOffice(k) = {}

\* ---- two scheduled runs in a row
\* C27: with the centers, the companies, the banned set and the upstream
\* answers fixed (the upstream knows no office), a scheduled run that follows
\* another and meets no error leaves the database as it found it: the same
\* offices rows, the same links and the same refresh_state
C27_SecondRunChangesNothing ==
  [][\A r \in Refreshers :
       /\ overpass = {}
       /\ ref[r].mode = "batch" /\ ref[r].before.follows
       /\ ref[r].lastError = "none"
       /\ ref[r].pc \in {"s_set_cursor", "s_reset"} /\ ref'[r].pc = "done"
       => /\ offices' = ref[r].before.offices
          /\ DOMAIN center_office' = ref[r].before.links
          /\ getRefreshCursor' = ref[r].cursorStart]_vars

\* ---- manual refreshes whose enrichment may raise
\* C26: when the Wikidata enrichment raises, refresh_center goes on: what it
\* upserted stays, the prune of the unseen links and the prune of the stale
\* links run, the call returns, and its result counts 0 entities fetched and
\* 0 offices updated
C26_EnrichmentErrorSwallowed ==
  [][\A r \in Refreshers :
       /\ ref[r].pc = "rc_enrich" /\ ref'[r] # ref[r]
            => /\ ref'[r].pc = "rc_prune_unseen"
               /\ tables' = tables
               /\ ref[r].linked \subseteq DOMAIN center_office'
       /\ ref[r].enrichment = "raised" /\ ref'[r] # ref[r]
            => \/ /\ ref[r].pc = "rc_prune_unseen"
                  /\ ref'[r].pc = "rc_prune_stale"
                  /\ center_office' =
                       pruneCenterLinksNotSeenSince(ref[r].center, ref[r].seenAt)
               \/ /\ ref[r].pc = "rc_prune_stale"
                  /\ ref'[r].pc = "done" /\ ref'[r].outcome = "ok"
                  /\ center_office' =
                       pruneStaleCenterLinks(ref[r].center, StaleLinkAge)
                  /\ ref'[r].wikidataEntitiesFetched = 0
                  /\ ref'[r].wikidataOfficesUpdated = 0
               \/ ref[r].pc = "done"]_vars

\* a refresh whose enrichment raised returned, and its links are there
C26_Witness ==
  \E r \in Refreshers :
    /\ ref[r].pc = "done" /\ ref[r].outcome = "ok"
    /\ ref[r].enrichment = "raised"
    /\ ref[r].answer # {}
    /\ {ref[r].target} \X ref[r].answer \subseteq DOMAIN center_office

\* how enrichOfficesWithWikidata may end: it raises; nothing to fetch; one
\* entity fetched and one or two offices updated
Enrichments ==
  {Enrichment(TRUE, 0, 0), Enrichment(FALSE, 0, 0), Enrichment(FALSE, 1, 1),
   Enrichment(FALSE, 1, 2)}

InitEnrich ==
  /\ TablesUnder(ActiveCenters(1), OfficeKeys, <<>>,
                 [QuietLoad EXCEPT !.enrichments = Enrichments])
  /\ Processes(FALSE, {"center"}, 2, {}, 0, 0)

NextEnrich ==
  \/ \E r \in Refreshers, c \in 1..2, maxOfficesRaw \in load.maxOffices,
        authorization \in load.authorization :
       RefreshCenterStart(r, c, maxOfficesRaw, authorization)
  \/ \E r \in Refreshers : RcLoad(r)
  \/ \E r \in Refreshers : RcFetch(r)
  \/ \E r \in Refreshers : RcBatch(r)
  \/ \E r \in Refreshers : RcEnrich(r)
  \/ \E r \in Refreshers : RcPruneUnseen(r)
  \/ \E r \in Refreshers : RcPruneStale(r)

SpecEnrich == InitEnrich /\ [][NextEnrich]_vars

\* ---- the Overpass client under every kind of answer
\* the request of the log that failed last
LastFailed(log) == log[Len(log)]

\* the error a failed request stands for
ErrorOf(entry) ==
  IF entry.response.status = 0 \/ IsOk(entry.response)
    THEN ThrownError(entry.response)
  ELSE StatusError(entry.response.status)

\* whether the request was answered with 429, 500 or more, or not at all
Retryable(entry) ==
  \/ entry.response.status = 0
  \/ entry.response.status = 429
  \/ entry.response.status >= 500
  \/ IsOk(entry.response) /\ ~entry.response.json

\* C25: fetch_overpass_elements makes at most 3 attempts per URL, in list
\* order; it returns at the first successful answer and asks no more; a 429,
\* a status of 500 or more or a network error is retried on the same URL after
\* a sleep of 400 x attempt ms; another status abandons the URL; when every
\* URL is exhausted the call fails with the error of the last failed attempt
C25_RetryPolicy ==
  LET log == ovp.log
  IN /\ \A i \in 1..Len(log) :
          /\ log[i].attempt < maxRetries
          /\ i > 1 => \/ /\ log[i].url = log[i - 1].url
                          /\ log[i].attempt = log[i - 1].attempt + 1
                          /\ Retryable(log[i - 1])
                       \/ /\ log[i].url = log[i - 1].url + 1
                          /\ log[i].attempt = 0
          /\ i < Len(log) => ~(IsOk(log[i].response) /\ log[i].response.json)
          /\ Retryable(log[i]) => log[i].waitMs = RetryWaitMs * (log[i].attempt + 1)
          /\ ~Retryable(log[i]) /\ i < Len(log) => log[i + 1].url = log[i].url + 1
     /\ ovp.pc = "returned" =>
          IsOk(log[Len(log)].response) /\ log[Len(log)].response.json
     /\ ovp.pc = "threw" =>
          /\ log[Len(log)].url = Len(ovp.urls)
          /\ ovp.error = ErrorOf(LastFailed(log))

\* values of OVERPASS_URL: unset, one URL, two URLs, two between blanks and
\* empty pieces, no URL at all
OverpassUrlValues ==
  {<<>>, <<"a">>, <<"a", ",", "b">>, <<" ", "a", " ", ",", ",", "b">>,
   <<" ", ",">>}

\* answers: 200 with a body that parses or not, 404, 429, 503, no answer
Responses ==
  {Response(200, TRUE), Response(200, FALSE), Response(404, TRUE),
   Response(429, TRUE), Response(503, TRUE), Response(0, FALSE)}

InitOverpass ==
  /\ load = QuietLoad
  /\ companies = <<>>
  /\ cancer_centers = ActiveCenters(1)
  /\ offices = {}
  /\ center_office = <<>>
  /\ office_deletion_flags = <<>>
  /\ banned_offices = <<>>
  /\ clock = 1
  /\ center_cursor = <<>>
  /\ overpass = {}
  /\ env = Environment(<<>>, SecretToken)
  /\ geo = GeoOf(ActiveCenters(1), {})
  /\ nrm = [NrmIdle EXCEPT !.pc = "off"]
  /\ Requests(FALSE, <<{}, {}>>, <<0, 0>>)
  /\ \E raw \in OverpassUrlValues : ovp = [OvpIdle EXCEPT !.raw = raw]

NextOverpass ==
  \/ FetchOverpassStart
  \/ \E response \in Responses : FetchOverpassAttempt(response)

SpecOverpass == InitOverpass /\ [][NextOverpass]_vars

\* ---- scheduled runs that may be interrupted
\* scheduled run r is between its start and its end
BatchInProgress(r) == ref[r].mode = "batch" /\ ref[r].pc \notin {"idle", "done"}

InitCancel ==
  /\ \E e \in {<<"1">>, <<"2">>} : Tables(ActiveCenters(2), OfficeKeys, e)
  /\ Requests(FALSE, <<{"batch"}, {}>>, <<3, 0>>)

NextCancel ==
  \/ \E r \in Refreshers, authorization \in load.batchTriggers :
       SchedStart(r, authorization)
  \/ \E r \in Refreshers : SchedList(r)
  \/ \E r \in Refreshers : SchedReset(r)
  \/ \E r \in Refreshers : SchedLoad(r)
  \/ \E r \in Refreshers : SchedSetCursor(r)
  \/ \E r \in Refreshers : RcFetch(r)
  \/ \E r \in Refreshers : RcBatch(r)
  \/ \E r \in Refreshers : RcEnrich(r)
  \/ \E r \in Refreshers : RcPruneUnseen(r)
  \/ \E r \in Refreshers : RcPruneStale(r)
  \/ \E r \in Refreshers : Interrupt(r)

SpecCancel == InitCancel /\ [][NextCancel]_vars

\* ---- two manual refreshes of one center
\* both slots ran refresh_center for center c, in progress together, with
\* the same upstream answer, company index and banned set, and both returned;
\* nothing else ran
TwoRunsOver(c) ==
  /\ \A p \in Submitters : sub[p].pc = "off"
  /\ \A r \in Refreshers :
       /\ ref[r].kinds = {"center"}
       /\ ref[r].pc = "done" /\ ref[r].outcome = "ok"
       /\ ref[r].target = c /\ ref[r].overlap
       /\ ref[r].maxOffices = 0
  /\ \A r, x \in Refreshers : ref[r].answer = ref[x].answer

\* C23: two refresh_center runs of one center with the same upstream answer,
\* company index and banned set, interleaved at their database steps, end
\* with the links a single run ends with: every office of the answer linked
C23_TwoRunsEndAsOne ==
  \A c \in DOMAIN cancer_centers :
    TwoRunsOver(c) =>
      {l \in DOMAIN center_office : l[1] = c} = {c} \X ref[1].answer

\* ---- refreshes and a centers upload over the coordinates
\* C22: in every state every center_office row holds the distance between the
\* coordinates the linked center row and the linked office row hold now
C22_DistanceMatchesCoordinates ==
  \A l \in DOMAIN center_office :
    geo.distance[l] = Distance(cancer_centers[l[1]].place, geo.office[l[2]])

\* the offices the upstream answers with, where they are or one step away
Shifts == {0, 1}

\* a centers file that lists both centers and gives the first a new lat/lon
MovedCenterFile ==
  CsvFile("file", TRUE,
          <<[CenterLine(<<"c", "1">>, <<"n">>, TRUE) EXCEPT !.place = 5],
            [CenterLine(<<"c", "2">>, <<"n">>, TRUE) EXCEPT !.place = CenterPlace(2)]>>)

\* two centers that share an office; manual refreshes and a centers upload
InitGeo ==
  /\ TablesFor(ActiveCenters(2), {<<"node", 1>>}, Environment(<<>>, SecretToken),
               [QuietLoad EXCEPT !.shifts = Shifts,
                                 !.centerFiles = {MovedCenterFile}],
               KnownCompanies)
  /\ Processes(FALSE, {"center"}, 2, {"centers"}, 1, 0)

NextGeo ==
  \/ \E r \in Refreshers, c \in 1..2, maxOfficesRaw \in load.maxOffices,
        authorization \in load.authorization :
       RefreshCenterStart(r, c, maxOfficesRaw, authorization)
  \/ \E r \in Refreshers : RcLoad(r)
  \/ \E r \in Refreshers : RcFetch(r)
  \/ \E r \in Refreshers : RcBatch(r)
  \/ \E r \in Refreshers : RcEnrich(r)
  \/ \E r \in Refreshers : RcPruneUnseen(r)
  \/ \E r \in Refreshers : RcPruneStale(r)
  \/ \E p \in Uploaders, file \in load.centerFiles,
        authorization \in load.authorization :
       UploadCentersStart(p, file, authorization)
  \/ \E p \in Uploaders : UcSelect(p)
  \/ \E p \in Uploaders : UcUpsert(p)
  \/ \E p \in Uploaders : UcDisable(p)

SpecGeo == InitGeo /\ [][NextGeo]_vars

\* ---------------------------------------------------------------------
\* two centers uploads in flight together (C30)

\* the two uploads p and q were in flight together: the one accepted second
\* found the other one running
InFlightTogether(p, q) ==
  /\ p # q /\ up[p].kind = "centers" /\ up[q].kind = "centers"
  /\ up[p].overlap \/ up[q].overlap

\* C30: when the later of two centers uploads that were in flight together
\* returns (its UPDATE ... SET is_active = 0 is the last statement of the
\* two), every center whose center_code is among its accepted rows is
\* active; so it is when both uploaded the same file.
C30_LastUploadKeepsItsCenters ==
  [][\A p, q \in Uploaders :
       (/\ InFlightTogether(p, q)
        /\ up[q].pc = "done" /\ up[q].outcome = "http_200"
        /\ up[p].pc = "uc_disable" /\ up'[p].pc = "done")
       => \A i \in 1..Len(up[p].rows) :
            \A id \in DOMAIN cancer_centers' :
              cancer_centers'[id].center_code = up[p].rows[i].centerCode
              => cancer_centers'[id].is_active]_vars
====
